---- MODULE Spec2Model ----
(***************************************************************************)
(* Model of the distage dependency-injection container:                    *)
(*   ModuleDef (append / overriddenBy), Planner (path-aware selection,     *)
(*   traversal, topological sort) and Producer (synchronous and            *)
(*   asynchronous execution of a Plan into a Locator).                     *)
(***************************************************************************)
EXTENDS Integers, Sequences, FiniteSets, TLC

(***************************************************************************)
(* Bounds of the model                                                     *)
(***************************************************************************)
MaxBindings == 4
MaxRoots == 2
MaxDepth == 3
MaxResources == 3
\* acquire and releaseAll calls made on one LifecycleManager
MaxLifecycleCalls == 5

(***************************************************************************)
(* Small helpers                                                           *)
(***************************************************************************)
Range(s) == { s[i] : i \in 1..Len(s) }

RECURSIVE SetToSeq(_)
SetToSeq(S) ==
  IF S = {} THEN <<>>
  ELSE LET x == CHOOSE y \in S : \A z \in S : y <= z
       IN <<x>> \o SetToSeq(S \ {x})

MaxOf(S) == CHOOSE x \in S : \A y \in S : y <= x

(***************************************************************************)
(* Axis, Activation, BindingTags                                           *)
(***************************************************************************)
AxisOrder == <<"Env", "Region">>
Axes == Range(AxisOrder)

AxisChoices(axis) == IF axis = "Env" THEN {"Prod", "Test"} ELSE {"US", "EU"}

\* An Activation and a BindingTags value are both maps Axis -> choice,
\* written as sets of <<axis, choice>> pairs with at most one pair per axis.
Undefined == "undefined"

getChoice(activation, axis) ==
  IF \E p \in activation : p[1] = axis
    THEN (CHOOSE p \in activation : p[1] = axis)[2]
    ELSE Undefined

\* matches accepting every binding, whatever the activation
matchesAlways(tags, activation) == TRUE

matches(tags, activation) ==
  \A t \in tags : getChoice(activation, t[1]) = t[2]

specificity(tags) == Cardinality(tags)

(***************************************************************************)
(* TypeTag and DIKey                                                       *)
(***************************************************************************)
NoId == "<no-id>"

CallableTag(cls) == [kind |-> "callable", value |-> cls, name |-> cls]
SetTag(cls) == [kind |-> "set", value |-> cls, name |-> cls]

TypeTagToString(tag) ==
  IF tag.kind = "callable" THEN "f:" \o tag.name
  ELSE IF tag.kind = "set" THEN "Set<f:" \o tag.name \o ">"
  ELSE "none"

DIKeyOf(cls) == [type |-> CallableTag(cls), id |-> NoId]
DIKeySet(cls) == [type |-> SetTag(cls), id |-> NoId]

NoKey == [type |-> [kind |-> "none", value |-> "", name |-> ""], id |-> NoId]

typeTagEquals(a, b) ==
  IF a.kind # b.kind THEN FALSE ELSE a.value = b.value

equals(k1, k2) == typeTagEquals(k1.type, k2.type) /\ k1.id = k2.id

toMapKey(key) ==
  TypeTagToString(key.type) \o "|" \o (IF key.id = NoId THEN "" ELSE key.id)

isSetKey(key) == key.type.kind = "set"

(***************************************************************************)
(* Bindings                                                                *)
(***************************************************************************)
\* deps is the dependency list of the constructor / Functoid of the binding
\* (for a set-element binding: of its element); impl names the constructor,
\* factory or pre-built value.
Binding(key, kind, tags, deps, target, weak, ekind, impl) ==
  [key |-> key, kind |-> kind, tags |-> tags, deps |-> deps, target |-> target,
   weak |-> weak, ekind |-> ekind, impl |-> impl]

BInstance(key, impl, tags) ==
  Binding(key, "Instance", tags, <<>>, NoKey, FALSE, "None", impl)
BClass(key, impl, deps, tags) ==
  Binding(key, "Class", tags, deps, NoKey, FALSE, "None", impl)
BFactory(key, impl, deps, tags) ==
  Binding(key, "Factory", tags, deps, NoKey, FALSE, "None", impl)
BAlias(key, target, tags) ==
  Binding(key, "Alias", tags, <<>>, target, FALSE, "None", "alias")
BSet(setKey, ekind, impl, deps, weak, tags) ==
  Binding(setKey, "Set", tags, deps, NoKey, weak, ekind, impl)

isSetBinding(b) == b.kind = "Set" \/ b.kind = "WeakSet"

kA == DIKeyOf("A")
kB == DIKeyOf("B")
kC == DIKeyOf("C")
kD == DIKeyOf("D")
kX == DIKeyOf("X")
kS == DIKeySet("P")
kT == DIKeySet("Q")

AllKeys == {kA, kB, kC, kD, kX, kS, kT}

Prod == {<<"Env", "Prod">>}
Test == {<<"Env", "Test">>}
ProdUS == {<<"Env", "Prod">>, <<"Region", "US">>}

\* The bindings modules are assembled from, in families: plain keys
\* (diamond, alias chain, cycle, a factory that throws), axis-tagged variants,
\* accumulated sets (with a class built beside the set and one built on it),
\* and sets with weak elements.
PlainCatalogue == <<
  BClass(kA, "A", <<kB, kC>>, {}),
  BClass(kB, "B", <<kD>>, {}),
  BFactory(kB, "mkBoom", <<kD>>, {}),
  BFactory(kC, "mkC", <<kD>>, {}),
  BAlias(kC, kX, {}),
  BAlias(kX, kD, {}),
  BInstance(kD, "dVal", {}),
  BClass(kD, "DProd", <<>>, Prod),
  BFactory(kD, "mkDA", <<kA>>, {})
>>

AxisCatalogue == <<
  BClass(kB, "B", <<kD>>, {}),
  BClass(kB, "BTest", <<kD>>, Test),
  BInstance(kD, "dVal", {}),
  BClass(kD, "DProd", <<>>, Prod),
  BClass(kD, "DProdUS", <<>>, ProdUS),
  BClass(kD, "DTest", <<>>, Test)
>>

SetCatalogue == <<
  BSet(kS, "Instance", "core", <<>>, FALSE, {}),
  BSet(kS, "Instance", "core", <<>>, FALSE, Prod),
  BSet(kS, "Factory", "mkPluginD", <<kD>>, FALSE, Prod),
  BClass(kD, "DProd", <<>>, Prod),
  BClass(kB, "BS", <<kS>>, {}),
  BClass(kB, "B", <<kD>>, Prod)
>>

WeakCatalogue == <<
  BSet(kS, "Instance", "core", <<>>, FALSE, {}),
  BSet(kS, "Class", "PluginT", <<kT>>, TRUE, {}),
  BSet(kT, "Class", "PluginC", <<kC>>, TRUE, {}),
  BSet(kT, "Class", "PluginX", <<kX>>, TRUE, {}),
  BSet(kT, "Class", "StrictX", <<kX>>, FALSE, {}),
  BSet(kT, "Class", "StrictS", <<kS>>, FALSE, {}),
  BAlias(kC, kX, {}),
  BAlias(kX, kC, {}),
  BInstance(kX, "xVal", {})
>>

\* DIKey.of of a second class that is also named D
kD2 == [type |-> [kind |-> "callable", value |-> "D#2", name |-> "D"], id |-> NoId]

\* Bindings of two classes of the same name.
HomonymCatalogue == <<
  BInstance(kD, "dVal", {}),
  BInstance(kD2, "d2Val", {}),
  BClass(kB, "B", <<kD2>>, {})
>>

Catalogues == <<PlainCatalogue, AxisCatalogue, SetCatalogue, WeakCatalogue,
                HomonymCatalogue>>

\* The keys roots are drawn from, per family.
RootKeys == << {kA, kC, kD}, {kB, kD}, {kS, kB}, {kS, kT, kC}, {kD, kD2, kB} >>

Activations == { {}, Prod, Test, ProdUS }

(***************************************************************************)
(* ModuleDef                                                               *)
(***************************************************************************)
\* A module is its list of bindings.
EmptyModule == <<>>

addBinding(bindings, binding) == Append(bindings, binding)

append(this, other) == this \o other

\* The Map<string, AnyBinding[]> of overriddenBy / groupBindings, kept in
\* insertion order: a sequence of [k |-> map key, v |-> bindings].
mapHas(m, k) == \E i \in 1..Len(m) : m[i].k = k
mapIdx(m, k) == CHOOSE i \in 1..Len(m) : m[i].k = k
mapGet(m, k) == m[mapIdx(m, k)].v
mapSet(m, k, v) ==
  IF mapHas(m, k) THEN [m EXCEPT ![mapIdx(m, k)].v = v]
  ELSE Append(m, [k |-> k, v |-> v])

RECURSIVE groupBindings(_, _)
groupBindings(index, bindings) ==
  IF bindings = <<>> THEN index
  ELSE LET binding == Head(bindings)
           key == toMapKey(binding.key)
           index1 == IF mapHas(index, key) THEN index ELSE mapSet(index, key, <<>>)
       IN groupBindings(mapSet(index1, key, Append(mapGet(index1, key), binding)),
                        Tail(bindings))

overriddenBy(this, other) ==
  LET bindingMap == groupBindings(groupBindings(<<>>, this), other)
  IN [i \in 1..Len(bindingMap) |-> bindingMap[i].v[Len(bindingMap[i].v)]]

(***************************************************************************)
(* PathActivation                                                          *)
(***************************************************************************)
\* requiredChoices / forbiddenChoices are Map<Axis, Set<string>>.  The Set
\* objects live in a heap (a sequence of sets of choices); a map holds, per
\* axis, a reference into the heap (0: the axis has no entry).  Copying a map
\* copies the references, not the Set objects.
NoRefs == [a \in Axes |-> 0]

fromActivation(activation) ==
  [base |-> activation, required |-> NoRefs, forbidden |-> NoRefs]

RECURSIVE withTags(_, _, _, _)
withTags(axes, tags, pa, heap) ==
  IF axes = <<>> THEN [pa |-> pa, heap |-> heap]
  ELSE LET axis == Head(axes) IN
    IF getChoice(tags, axis) = Undefined THEN withTags(Tail(axes), tags, pa, heap)
    ELSE
      LET choice == getChoice(tags, axis)
          heap1 == IF pa.required[axis] = 0 THEN Append(heap, {}) ELSE heap
          req == IF pa.required[axis] = 0 THEN Len(heap1) ELSE pa.required[axis]
          heap2 == [heap1 EXCEPT ![req] = @ \cup {choice}]
          heap3 == IF pa.forbidden[axis] = 0 THEN Append(heap2, {}) ELSE heap2
          forb == IF pa.forbidden[axis] = 0 THEN Len(heap3) ELSE pa.forbidden[axis]
          heap4 == [heap3 EXCEPT ![forb] = @ \cup (AxisChoices(axis) \ {choice})]
          pa1 == [pa EXCEPT !.required[axis] = req, !.forbidden[axis] = forb]
      IN withTags(Tail(axes), tags, pa1, heap4)

withBindingConstraints(pa, binding, heap) ==
  withTags(AxisOrder, binding.tags, pa, heap)

requiredOf(pa, heap, axis) ==
  IF pa.required[axis] = 0 THEN {} ELSE heap[pa.required[axis]]
forbiddenOf(pa, heap, axis) ==
  IF pa.forbidden[axis] = 0 THEN {} ELSE heap[pa.forbidden[axis]]

\* isBindingValid without the test against the base activation
isBindingValidPathOnly(pa, binding, heap) ==
  IF Cardinality(binding.tags) = 0 THEN TRUE
  ELSE \A t \in binding.tags :
         /\ ~(requiredOf(pa, heap, t[1]) # {} /\ t[2] \notin requiredOf(pa, heap, t[1]))
         /\ t[2] \notin forbiddenOf(pa, heap, t[1])

\* isBindingValid holding the binding to the required choices of every axis,
\* the axes it carries no tag on included
isBindingValidOnEveryAxis(pa, binding, heap) ==
  /\ matches(binding.tags, pa.base)
  /\ \A axis \in Axes :
       requiredOf(pa, heap, axis) # {}
         => getChoice(binding.tags, axis) \in requiredOf(pa, heap, axis)

isBindingValid(pa, binding, heap) ==
  IF ~matches(binding.tags, pa.base) THEN FALSE
  ELSE IF Cardinality(binding.tags) = 0 THEN TRUE
  ELSE \A t \in binding.tags :
         /\ ~(requiredOf(pa, heap, t[1]) # {} /\ t[2] \notin requiredOf(pa, heap, t[1]))
         /\ t[2] \notin forbiddenOf(pa, heap, t[1])

(***************************************************************************)
(* Planner                                                                 *)
(***************************************************************************)
NoErr == [kind |-> "none", key |-> NoKey, requiredBy |-> NoKey, path |-> <<>>]
MissingDependencyError(key, requiredBy) ==
  [kind |-> "MissingDependency", key |-> key, requiredBy |-> requiredBy, path |-> <<>>]
\* CircularDependencyError built from the path without the key re-entered
CircularDependencyErrorOfPathOnly(path) ==
  [kind |-> "CircularDependency", key |-> NoKey, requiredBy |-> NoKey,
   path |-> SubSeq(path, 1, Len(path) - 1)]

CircularDependencyError(path) ==
  [kind |-> "CircularDependency", key |-> NoKey, requiredBy |-> NoKey, path |-> path]
ConflictingBindingsError(key) ==
  [kind |-> "ConflictingBindings", key |-> key, requiredBy |-> NoKey, path |-> <<>>]
AxisConflictError(key, requiredBy) ==
  [kind |-> "AxisConflict", key |-> key, requiredBy |-> requiredBy, path |-> <<>>]

\* selectBinding returning the first valid candidate, not the most specific
selectBindingFirstValid(key, candidates, pa, heap, requiredBy) ==
  LET IsValid(b) == isBindingValid(pa, b, heap)
      valid == SelectSeq(candidates, IsValid)
      BaseMatches(b) == matches(b.tags, pa.base)
      baseMatching == SelectSeq(candidates, BaseMatches)
      allSets == \A i \in 1..Len(valid) : isSetBinding(valid[i])
  IN IF Len(valid) = 0
       THEN IF Len(baseMatching) > 0
              THEN [err |-> AxisConflictError(key, requiredBy), isArray |-> FALSE,
                    bindings |-> <<>>]
              ELSE [err |-> MissingDependencyError(key, requiredBy), isArray |-> FALSE,
                    bindings |-> <<>>]
     ELSE IF allSets /\ Len(valid) > 1
       THEN [err |-> NoErr, isArray |-> TRUE, bindings |-> valid]
     ELSE [err |-> NoErr, isArray |-> FALSE, bindings |-> <<valid[1]>>]

\* Result: [err, isArray, bindings]; bindings holds the single selected
\* binding, or all of them when an array of set bindings is returned.
selectBinding(key, candidates, pa, heap, requiredBy) ==
  LET IsValid(b) == isBindingValid(pa, b, heap)
      valid == SelectSeq(candidates, IsValid)
      BaseMatches(b) == matches(b.tags, pa.base)
      baseMatching == SelectSeq(candidates, BaseMatches)
      allSets == \A i \in 1..Len(valid) : isSetBinding(valid[i])
      maxSpecificity == MaxOf({ specificity(valid[i].tags) : i \in 1..Len(valid) })
      IsMostSpecific(b) == specificity(b.tags) = maxSpecificity
      mostSpecific == SelectSeq(valid, IsMostSpecific)
  IN IF Len(valid) = 0
       THEN IF Len(baseMatching) > 0
              THEN [err |-> AxisConflictError(key, requiredBy), isArray |-> FALSE,
                    bindings |-> <<>>]
              ELSE [err |-> MissingDependencyError(key, requiredBy), isArray |-> FALSE,
                    bindings |-> <<>>]
     ELSE IF allSets /\ Len(valid) > 1
       THEN [err |-> NoErr, isArray |-> TRUE, bindings |-> valid]
     ELSE IF Len(mostSpecific) > 1
       THEN [err |-> ConflictingBindingsError(key), isArray |-> FALSE, bindings |-> <<>>]
     ELSE [err |-> NoErr, isArray |-> FALSE, bindings |-> <<mostSpecific[1]>>]

getDependencies(binding) ==
  IF binding.kind = "Instance" THEN <<>>
  ELSE IF binding.kind \in {"Class", "Factory"} THEN binding.deps
  ELSE IF binding.kind = "Alias" THEN <<binding.target>>
  ELSE IF isSetBinding(binding)
    THEN (IF binding.ekind = "Instance" THEN <<>> ELSE binding.deps)
  ELSE <<>>

(***************************************************************************)
(* Locator (LocatorImpl over an instance map)                              *)
(***************************************************************************)
\* The optional parent Locator: present = FALSE stands for `undefined`.
NoLocator == [present |-> FALSE, instances |-> <<>>]
LocatorImpl(instances) == [present |-> TRUE, instances |-> instances]

locatorHas(locator, key) == mapHas(locator.instances, toMapKey(key))
locatorFind(locator, key) ==
  IF mapHas(locator.instances, toMapKey(key))
    THEN mapGet(locator.instances, toMapKey(key))
    ELSE Undefined

(***************************************************************************)
(* Planner.traceDependencies                                               *)
(***************************************************************************)
\* The mutable state threaded through the traversal:
\*   steps (Map<string, PlanStep>, insertion ordered), visiting, visited,
\*   the heap of PathActivation choice sets, and the error thrown, if any.
\* selections is a history of the successful selectBinding calls, kept for the
\* properties: [key, path, valid, selected, required].  raised is the history
\* of the errors thrown, caught that of the errors that reached the catch
\* clause of a set element: [err, weak, swallowed].
\* A PlanStep is [key, isArray, bindings, dependencies].
PlanStep(key, isArray, bindings, dependencies) ==
  [key |-> key, isArray |-> isArray, bindings |-> bindings,
   dependencies |-> dependencies]

InitTrace ==
  [steps |-> <<>>, visiting |-> {}, visited |-> {}, heap |-> <<>>, err |-> NoErr,
   selections |-> <<>>, raised |-> <<>>, caught |-> <<>>]

\* The history entry of one selectBinding call.
Selection(key, path, candidates, pa, heap, sel) ==
  LET IsValid(b) == isBindingValid(pa, b, heap)
  IN [key |-> key, path |-> path, valid |-> SelectSeq(candidates, IsValid),
      selected |-> sel.bindings,
      required |-> [a \in Axes |-> requiredOf(pa, heap, a)]]

requiredByOf(path) == IF Len(path) > 0 THEN path[Len(path)] ELSE NoKey

\* throw error
throw(st, error) == [st EXCEPT !.err = error, !.raised = Append(@, error)]

\* The test of the catch clause that skips a set element, made for every
\* error whatever the element
isSwallowedAlways(isWeak, error) == TRUE

\* The test of the catch clause that skips a set element.
isSwallowed(isWeak, error) ==
  isWeak /\ error.kind \in {"MissingDependency", "AxisConflict"}

RECURSIVE traceDependencies(_, _, _, _, _)
RECURSIVE traceEach(_, _, _, _, _)
RECURSIVE traceSetBindings(_, _, _, _, _, _, _)
RECURSIVE afterSetElement(_, _, _, _, _, _, _)
RECURSIVE traceSelected(_, _, _, _, _, _)

\* for (const dep of deps) traceDependencies(dep, ...): stops at the first throw
traceEach(deps, ctx, pa, st, path) ==
  IF deps = <<>> \/ st.err # NoErr THEN st
  ELSE traceEach(Tail(deps), ctx, pa,
                 traceDependencies(Head(deps), ctx, pa, st, path), path)

\* The loop over the array of set-element bindings.  The body of the try block
\* runs first; afterSetElement is the code after it (validBindings.push, or
\* the catch clause).  Result: [st, allDependencies, validBindings].
traceSetBindings(bindings, ctx, pa, st, newPath, allDependencies, validBindings) ==
  IF bindings = <<>> THEN
    [st |-> st, allDependencies |-> allDependencies, validBindings |-> validBindings]
  ELSE
    LET wc == withBindingConstraints(pa, Head(bindings), st.heap)
    IN afterSetElement(bindings, ctx, pa, newPath,
                       allDependencies \o getDependencies(Head(bindings)),
                       validBindings,
                       traceEach(getDependencies(Head(bindings)), ctx, wc.pa,
                                 [st EXCEPT !.heap = wc.heap], newPath))

\* st1: the state after the dependencies of Head(bindings) were traced
afterSetElement(bindings, ctx, pa, newPath, allDependencies, validBindings, st1) ==
  LET binding == Head(bindings)
      isWeak == binding.kind = "WeakSet" \/ (binding.kind = "Set" /\ binding.weak)
  IN IF st1.err = NoErr THEN
       traceSetBindings(Tail(bindings), ctx, pa, st1, newPath, allDependencies,
                        Append(validBindings, binding))
     ELSE IF isSwallowed(isWeak, st1.err) THEN
       traceSetBindings(Tail(bindings), ctx, pa,
                        [st1 EXCEPT !.err = NoErr,
                                    !.caught = Append(@, [err |-> st1.err, weak |-> isWeak,
                                                          swallowed |-> TRUE])],
                        newPath, allDependencies, validBindings)
     ELSE
       [st |-> [st1 EXCEPT !.caught = Append(@, [err |-> st1.err, weak |-> isWeak,
                                                 swallowed |-> FALSE])],
        allDependencies |-> allDependencies, validBindings |-> validBindings]

\* The end of the set branch: r is the result of the loop over the bindings.
recordSetStep(key, r) ==
  IF r.st.err # NoErr THEN r.st
  ELSE [r.st EXCEPT
          !.steps = IF Len(r.validBindings) > 0
                      THEN mapSet(@, toMapKey(key),
                                  PlanStep(key, TRUE, r.validBindings, r.allDependencies))
                      ELSE @,
          !.visiting = @ \ {toMapKey(key)},
          !.visited = @ \cup {toMapKey(key)}]

\* The end of the single-binding branch: st1 is the state after the
\* dependencies were traced.
recordStep(key, binding, st1) ==
  IF st1.err # NoErr THEN st1
  ELSE [st1 EXCEPT
          !.steps = mapSet(@, toMapKey(key),
                           PlanStep(key, FALSE, <<binding>>, getDependencies(binding))),
          !.visiting = @ \ {toMapKey(key)},
          !.visited = @ \cup {toMapKey(key)}]

\* traceDependencies from the call of selectBinding on; sel is its result.
traceSelected(key, ctx, pa, st, path, sel) ==
  IF sel.err # NoErr THEN throw(st, sel.err)
  ELSE IF sel.isArray THEN
    recordSetStep(key,
      traceSetBindings(sel.bindings, ctx, pa,
                       [st EXCEPT !.visiting = @ \cup {toMapKey(key)},
                                  !.selections = Append(@,
                                     Selection(key, path, mapGet(ctx.index, toMapKey(key)),
                                               pa, st.heap, sel))],
                       Append(path, key), <<>>, <<>>))
  ELSE
    LET wc == withBindingConstraints(pa, sel.bindings[1], st.heap)
    IN recordStep(key, sel.bindings[1],
         traceEach(getDependencies(sel.bindings[1]), ctx, wc.pa,
                   [st EXCEPT !.visiting = @ \cup {toMapKey(key)}, !.heap = wc.heap,
                              !.selections = Append(@,
                                 Selection(key, path, mapGet(ctx.index, toMapKey(key)),
                                           pa, st.heap, sel))],
                   Append(path, key)))

traceDependencies(key, ctx, pa, st, path) ==
  LET keyStr == toMapKey(key) IN
  IF keyStr \in st.visited THEN st
  ELSE IF keyStr \in st.visiting
    THEN throw(st, CircularDependencyError(Append(path, key)))
  ELSE IF ~mapHas(ctx.index, keyStr) \/ Len(mapGet(ctx.index, keyStr)) = 0 THEN
    IF ctx.parent.present /\ locatorHas(ctx.parent, key)
      THEN [st EXCEPT !.visited = @ \cup {keyStr}]
      ELSE throw(st, MissingDependencyError(key, requiredByOf(path)))
  ELSE
    traceSelected(key, ctx, pa, st, path,
                  selectBinding(key, mapGet(ctx.index, keyStr), pa, st.heap,
                                requiredByOf(path)))

(***************************************************************************)
(* Planner.topologicalSort                                                 *)
(***************************************************************************)
\* steps.find(s => s.key.equals(depKey)): index of the first such step, or 0
findStep(steps, depKey) ==
  IF \E i \in 1..Len(steps) : equals(steps[i].key, depKey)
    THEN CHOOSE i \in 1..Len(steps) :
           /\ equals(steps[i].key, depKey)
           /\ \A j \in 1..(i - 1) : ~equals(steps[j].key, depKey)
    ELSE 0

RECURSIVE visit(_, _, _)
RECURSIVE visitDeps(_, _, _)

\* ts = [sorted, visited, visiting, err]
visitDeps(deps, steps, ts) ==
  IF deps = <<>> \/ ts.err # NoErr THEN ts
  ELSE LET d == findStep(steps, Head(deps))
       IN visitDeps(Tail(deps), steps,
                    IF d # 0 THEN visit(steps[d], steps, ts) ELSE ts)

visit(step, steps, ts) ==
  LET keyStr == toMapKey(step.key) IN
  IF keyStr \in ts.visited THEN ts
  ELSE IF keyStr \in ts.visiting
    THEN [ts EXCEPT !.err = CircularDependencyError(<<step.key>>)]
  ELSE LET ts1 == visitDeps(step.dependencies, steps,
                            [ts EXCEPT !.visiting = @ \cup {keyStr}])
       IN IF ts1.err # NoErr THEN ts1
          ELSE [ts1 EXCEPT !.visiting = @ \ {keyStr},
                           !.visited = @ \cup {keyStr},
                           !.sorted = Append(@, step)]

RECURSIVE visitAll(_, _, _)
visitAll(rest, steps, ts) ==
  IF rest = <<>> \/ ts.err # NoErr THEN ts
  ELSE visitAll(Tail(rest), steps, visit(Head(rest), steps, ts))

topologicalSort(steps) ==
  visitAll(steps, steps,
           [sorted |-> <<>>, visited |-> {}, visiting |-> {}, err |-> NoErr])

(***************************************************************************)
(* Planner.plan                                                            *)
(***************************************************************************)
RECURSIVE traceRoots(_, _, _, _)
traceRoots(rootKeys, ctx, pa, st) ==
  IF rootKeys = <<>> \/ st.err # NoErr THEN st
  ELSE traceRoots(Tail(rootKeys), ctx, pa,
                  traceDependencies(Head(rootKeys), ctx, pa, st, <<>>))

\* Result: [err, steps, roots, selections]; err = NoErr when a Plan is returned.
plan(moduleDef, rootKeys, activation, parentLocator) ==
  LET ctx == [index |-> groupBindings(<<>>, moduleDef), parent |-> parentLocator]
      st == traceRoots(rootKeys, ctx, fromActivation(activation), InitTrace)
      values == [i \in 1..Len(st.steps) |-> st.steps[i].v]
      ts == topologicalSort(values)
  IN IF st.err # NoErr
       THEN [err |-> st.err, steps |-> <<>>, roots |-> rootKeys,
             selections |-> st.selections, raised |-> st.raised, caught |-> st.caught]
     ELSE IF ts.err # NoErr
       THEN [err |-> ts.err, steps |-> <<>>, roots |-> rootKeys,
             selections |-> st.selections, raised |-> Append(st.raised, ts.err),
             caught |-> st.caught]
     ELSE [err |-> NoErr, steps |-> ts.sorted, roots |-> rootKeys,
           selections |-> st.selections, raised |-> st.raised, caught |-> st.caught]

(***************************************************************************)
(* Producer: instance creation                                             *)
(***************************************************************************)
\* A value is [impl, n, elems]: impl names the constructor, factory or
\* pre-built value it came from, n is the serial number of the constructor
\* invocation that made it (0 for a pre-built value), elems holds the elements
\* when the value is a Set.
Value(impl, n) == [impl |-> impl, n |-> n, elems |-> {}]
SetValue(elems) == [impl |-> "Set", n |-> 0, elems |-> elems]
UndefinedValue == Value(Undefined, 0)

NoFailure == [kind |-> "none", key |-> NoKey]
DependencyNotFound(key) == [kind |-> "DependencyNotFound", key |-> key]
InvalidPlan == [kind |-> "InvalidPlan", key |-> NoKey]
FunctoidThrew(key) == [kind |-> "FunctoidThrew", key |-> key]

\* The Functoids that throw when executed.
Throwing == {"mkBoom"}

instancesGet(instances, keyStr) ==
  IF mapHas(instances, keyStr) THEN mapGet(instances, keyStr) ELSE UndefinedValue

\* Result: the instance, or UndefinedValue where the code throws
\* "Dependency not found".
resolveInstance(key, instances, parentLocator) ==
  LET instance == instancesGet(instances, toMapKey(key)) IN
  IF instance # UndefinedValue THEN instance
  ELSE IF parentLocator.present /\ locatorHas(parentLocator, key)
         /\ mapGet(parentLocator.instances, toMapKey(key)) # UndefinedValue
    THEN mapGet(parentLocator.instances, toMapKey(key))
  ELSE UndefinedValue

\* createFromFunctoid returning undefined when the Functoid throws
createFromFunctoidSwallowing(stepKey, binding, dependencies, instances, parentLocator, log) ==
  LET args == [i \in 1..Len(dependencies) |->
                 resolveInstance(dependencies[i], instances, parentLocator)]
      missing == { i \in 1..Len(dependencies) : args[i] = UndefinedValue }
  IN IF missing # {}
       THEN [err |-> DependencyNotFound(dependencies[CHOOSE i \in missing :
                                                       \A j \in missing : i <= j]),
             value |-> UndefinedValue, log |-> log]
     ELSE [err |-> NoFailure,
           value |-> IF binding.impl \in Throwing THEN Value("swallowed", 0)
                     ELSE Value(binding.impl, Len(log) + 1),
           log |-> Append(log, [key |-> stepKey, impl |-> binding.impl,
                                deps |-> dependencies, args |-> args,
                                result |-> IF binding.impl \in Throwing
                                             THEN UndefinedValue
                                             ELSE Value(binding.impl, Len(log) + 1)])]

\* createFromClass / createFromFactory: resolve the arguments, then invoke the
\* Functoid.  log is the list of Functoid invocations made so far; each entry
\* is [key, impl, deps, args, result].  Result: [err, value, log].
createFromFunctoid(stepKey, binding, dependencies, instances, parentLocator, log) ==
  LET args == [i \in 1..Len(dependencies) |->
                 resolveInstance(dependencies[i], instances, parentLocator)]
      missing == { i \in 1..Len(dependencies) : args[i] = UndefinedValue }
      result == Value(binding.impl, Len(log) + 1)
  IN IF missing # {}
       THEN [err |-> DependencyNotFound(dependencies[CHOOSE i \in missing :
                                                       \A j \in missing : i <= j]),
             value |-> UndefinedValue, log |-> log]
     ELSE IF binding.impl \in Throwing
       THEN [err |-> FunctoidThrew(stepKey), value |-> UndefinedValue,
             log |-> Append(log, [key |-> stepKey, impl |-> binding.impl,
                                  deps |-> dependencies, args |-> args,
                                  result |-> UndefinedValue])]
       ELSE [err |-> NoFailure, value |-> result,
             log |-> Append(log, [key |-> stepKey, impl |-> binding.impl,
                                  deps |-> dependencies, args |-> args,
                                  result |-> result])]

createInstanceForSetElement(stepKey, binding, instances, parentLocator, log) ==
  IF binding.ekind = "Instance"
    THEN [err |-> NoFailure, value |-> Value(binding.impl, 0), log |-> log]
    ELSE createFromFunctoid(stepKey, binding, binding.deps, instances,
                            parentLocator, log)

\* The loop of createSetFromMultipleBindings (createSet is the same loop run
\* on one binding).  Result: [err, value, log].
RECURSIVE createSetElements(_, _, _, _, _, _)
createSetElements(stepKey, bindings, elems, instances, parentLocator, log) ==
  IF bindings = <<>> THEN [err |-> NoFailure, value |-> SetValue(elems), log |-> log]
  ELSE
    LET binding == Head(bindings)
        isWeak == binding.kind = "WeakSet" \/ binding.weak
        r == createInstanceForSetElement(stepKey, binding, instances, parentLocator, log)
    IN IF r.err = NoFailure
         THEN createSetElements(stepKey, Tail(bindings), elems \cup {r.value},
                                instances, parentLocator, r.log)
       ELSE IF isWeak
         THEN createSetElements(stepKey, Tail(bindings), elems, instances,
                                parentLocator, r.log)
       ELSE [err |-> r.err, value |-> UndefinedValue, log |-> r.log]

createInstance(step, instances, parentLocator, log) ==
  IF step.isArray
    THEN createSetElements(step.key, step.bindings, {}, instances, parentLocator, log)
  ELSE
    LET binding == step.bindings[1] IN
    IF binding.kind = "Instance"
      THEN [err |-> NoFailure, value |-> Value(binding.impl, 0), log |-> log]
    ELSE IF binding.kind \in {"Class", "Factory"}
      THEN createFromFunctoid(step.key, binding, step.dependencies, instances,
                              parentLocator, log)
    ELSE IF binding.kind = "Alias"
      THEN LET v == resolveInstance(binding.target, instances, parentLocator)
           IN IF v = UndefinedValue
                THEN [err |-> DependencyNotFound(binding.target),
                      value |-> UndefinedValue, log |-> log]
                ELSE [err |-> NoFailure, value |-> v, log |-> log]
    ELSE IF isSetBinding(binding)
      THEN createSetElements(step.key, <<binding>>, {}, instances, parentLocator, log)
    ELSE [err |-> NoFailure, value |-> Value("assistedFactory", 0), log |-> log]

\* Producer.produce run to its end on the steps: [err, instances, log], log
\* being the Functoid invocations made so far followed by those of the run.
RECURSIVE produce(_, _, _, _)
produce(steps, insts, parent, log) ==
  IF steps = <<>> THEN [err |-> NoFailure, instances |-> insts, log |-> log]
  ELSE IF mapHas(insts, toMapKey(Head(steps).key))
    THEN produce(Tail(steps), insts, parent, log)
  ELSE IF createInstance(Head(steps), insts, parent, log).err # NoFailure
    THEN [err |-> createInstance(Head(steps), insts, parent, log).err,
          instances |-> insts,
          log |-> createInstance(Head(steps), insts, parent, log).log]
  ELSE produce(Tail(steps),
               mapSet(insts, toMapKey(Head(steps).key),
                      createInstance(Head(steps), insts, parent, log).value),
               parent,
               createInstance(Head(steps), insts, parent, log).log)

(***************************************************************************)
(* State                                                                   *)
(***************************************************************************)
VARIABLES
  baseModule,     \* the ModuleDef a composition starts from
  overlayModule,  \* the ModuleDef it is appended to or overridden by
  moduleDef,      \* the bindings of the ModuleDef handed to the Injector
  roots,          \* the root keys, in the order given
  activation,     \* the Activation
  parentLocator,  \* the optional parent Locator
  pc,             \* position of the produce call
  thePlan,        \* the result of Planner.plan
  instances,      \* the Producer's instance map
  stepIdx,        \* produce: index of the next plan step
  completed,      \* produceAsync: keys of the completed steps
  inProgress,     \* produceAsync: keys of the steps whose promise is pending
  pending,        \* produceAsync: value created by a started step, not yet stored
  raceSettled,    \* produceAsync: the awaited Promise.race has settled
  invocations,    \* every Functoid invocation made so far, in order
  failure,        \* the error the produce call failed with
  locator,        \* the Locator returned to the caller
  contexts,       \* a root Locator and the child Locators of the Subcontexts nested on it
  lookup,         \* the last lookup made through the innermost Subcontext
  resources,      \* LifecycleManager.resources, the last acquired at the end
  acquired,       \* every call of LifecycleManager.acquire so far, in order
  releases,       \* the resources whose release was called so far, in order
  releaseCalls,   \* every call of LifecycleManager.releaseAll so far, in order
  pathActivation, \* selectBinding alone: the PathActivation of the traversal path
  selected        \* selectBinding alone: its result before and after the last extension

vars == <<baseModule, overlayModule, moduleDef, roots, activation, parentLocator, pc, thePlan, instances,
          stepIdx, completed, inProgress, pending, raceSettled, invocations,
          failure, locator, contexts, lookup, resources, acquired, releases, releaseCalls,
          pathActivation, selected>>

lifecycleVars == <<resources, acquired, releases, releaseCalls>>
selectVars == <<pathActivation, selected>>
subVars == <<contexts, lookup, lifecycleVars, selectVars>>
inputs == <<baseModule, overlayModule, moduleDef, roots, activation, parentLocator>>
asyncVars == <<completed, inProgress, pending, raceSettled>>

NoReleaseCalls == <<>>

NoSelection == [err |-> NoErr, isArray |-> FALSE, bindings |-> <<>>]
NoSelected == [before |-> NoSelection, now |-> NoSelection]
NoPathActivation ==
  [pa |-> fromActivation({}), heap |-> <<>>, keys |-> <<>>, added |-> <<>>]

NoLookup == [op |-> "none", key |-> NoKey, threw |-> FALSE, value |-> UndefinedValue]

NoPlan == [err |-> NoErr, steps |-> <<>>, roots |-> <<>>, selections |-> <<>>,
           raised |-> <<>>, caught |-> <<>>]

\* Modules: the bindings of a subset of a catalogue, in catalogue order.
Modules(catalogue, maxLen) ==
  { [i \in 1..Cardinality(I) |-> catalogue[SetToSeq(I)[i]]] :
      I \in { J \in SUBSET (1..Len(catalogue)) : Cardinality(J) <= maxLen } }

\* Lists of distinct root keys.
RootLists(keys) ==
  { r \in UNION { [1..n -> keys] : n \in 0..MaxRoots } :
      \A i, j \in 1..Len(r) : i # j => r[i] # r[j] }

\* The parent Locators a family of inputs is run with: none, one holding X,
\* one holding D.
ParentLocators ==
  LET parentX == LocatorImpl(<<[k |-> toMapKey(kX), v |-> Value("parentX", 0)]>>)
      parentD == LocatorImpl(<<[k |-> toMapKey(kD), v |-> Value("parentD", 0)]>>)
  IN << {NoLocator, parentD}, {NoLocator, parentD}, {NoLocator, parentD},
        {NoLocator, parentX}, {NoLocator} >>

\* The Activations a family of inputs is run with.
FamilyActivations == << {{}, Prod}, Activations, {{}, Prod}, {{}}, {{}} >>

Init ==
  /\ baseModule = EmptyModule
  /\ overlayModule = EmptyModule
  /\ \E f \in 1..Len(Catalogues) :
       /\ moduleDef \in Modules(Catalogues[f], MaxBindings)
       /\ roots \in RootLists(RootKeys[f])
       /\ activation \in FamilyActivations[f]
       /\ parentLocator \in ParentLocators[f]
  /\ pc = "start"
  /\ thePlan = NoPlan
  /\ instances = <<>>
  /\ stepIdx = 1
  /\ completed = {}
  /\ inProgress = {}
  /\ pending = <<>>
  /\ raceSettled = "no"
  /\ invocations = <<>>
  /\ failure = NoFailure
  /\ locator = NoLocator
  /\ contexts = <<>>
  /\ lookup = NoLookup
  /\ resources = <<>>
  /\ acquired = <<>>
  /\ releases = <<>>
  /\ releaseCalls = NoReleaseCalls
  /\ pathActivation = NoPathActivation
  /\ selected = NoSelected

(***************************************************************************)
(* Injector.produce: plan, then Producer.produce                           *)
(***************************************************************************)
\* Injector.plan: the Planner either returns a Plan or throws.
Plan ==
  /\ UNCHANGED subVars
  /\ pc = "start"
  /\ thePlan' = plan(moduleDef, roots, activation, parentLocator)
  /\ pc' = IF thePlan'.err = NoErr THEN "planned" ELSE "planFailed"
  /\ UNCHANGED <<inputs, instances, stepIdx, asyncVars, invocations, failure, locator>>

\* Producer.produce is entered.
ProduceBegin ==
  /\ UNCHANGED subVars
  /\ pc = "planned"
  /\ pc' = "produce"
  /\ UNCHANGED <<inputs, thePlan, instances, stepIdx, asyncVars, invocations,
                 failure, locator>>

\* One iteration of the loop of Producer.produce: executeStep.
ExecuteStep ==
  /\ UNCHANGED subVars
  /\ pc = "produce"
  /\ stepIdx <= Len(thePlan.steps)
  /\ LET step == thePlan.steps[stepIdx]
         keyStr == toMapKey(step.key)
         r == createInstance(step, instances, parentLocator, invocations)
     IN IF mapHas(instances, keyStr)
          THEN /\ stepIdx' = stepIdx + 1
               /\ UNCHANGED <<pc, instances, invocations, failure>>
        ELSE IF r.err # NoFailure
          THEN /\ pc' = "failed"
               /\ failure' = r.err
               /\ invocations' = r.log
               /\ UNCHANGED <<instances, stepIdx>>
        ELSE /\ instances' = mapSet(instances, keyStr, r.value)
             /\ invocations' = r.log
             /\ stepIdx' = stepIdx + 1
             /\ UNCHANGED <<pc, failure>>
  /\ UNCHANGED <<inputs, thePlan, asyncVars, locator>>

\* Producer.produce returns the Locator.
ProduceReturn ==
  /\ UNCHANGED subVars
  /\ pc = "produce"
  /\ stepIdx > Len(thePlan.steps)
  /\ locator' = LocatorImpl(instances)
  /\ pc' = "done"
  /\ UNCHANGED <<inputs, thePlan, instances, stepIdx, asyncVars, invocations, failure>>

(***************************************************************************)
(* Injector.produceAsync: plan, then Producer.produceAsync                 *)
(***************************************************************************)
ProduceAsyncBegin ==
  /\ UNCHANGED subVars
  /\ pc = "planned"
  /\ pc' = "asyncScan"
  /\ UNCHANGED <<inputs, thePlan, instances, stepIdx, asyncVars, invocations,
                 failure, locator>>

\* dependencyMap.get(keyStr): the map keys of the step's dependencies
dependencyKeys(step) == { toMapKey(step.dependencies[i]) : i \in 1..Len(step.dependencies) }

\* The readiness test finding every step ready
allDepsCompletedAlways(step, completedKeys, insts) == TRUE

\* The readiness test of one step in the scan of produceAsync.
allDepsCompleted(step, completedKeys, insts) ==
  \A dep \in dependencyKeys(step) : dep \in completedKeys \/ mapHas(insts, dep)

\* readySteps without the inProgress test
readyStepsIgnoringInProgress(steps, completedKeys, inProgressKeys, insts) ==
  LET IsReady(step) ==
        /\ toMapKey(step.key) \notin completedKeys
        /\ allDepsCompleted(step, completedKeys, insts)
  IN SelectSeq(steps, IsReady)

readySteps(steps, completedKeys, inProgressKeys, insts) ==
  LET IsReady(step) ==
        /\ toMapKey(step.key) \notin completedKeys
        /\ toMapKey(step.key) \notin inProgressKeys
        /\ allDepsCompleted(step, completedKeys, insts)
  IN SelectSeq(steps, IsReady)

\* The set bindings whose elements the step creates one await apart: those of
\* createSetFromMultipleBindingsAsync, the one of createSetAsync, none for
\* the other kinds of step.
setBindingsOf(step) ==
  IF step.isArray THEN step.bindings
  ELSE IF isSetBinding(step.bindings[1]) THEN <<step.bindings[1]>>
  ELSE <<>>

\* One pass of the for loop of createSetFromMultipleBindingsAsync (the body of
\* createSetAsync), r being the outcome of createInstanceForSetElementAsync on
\* the first binding left: the element is added, a weak element that failed
\* is skipped, any other failure is thrown out of the loop.
afterSetElementAsync(entry, r) ==
  LET binding == Head(entry.rest)
      isWeak == binding.kind = "WeakSet" \/ binding.weak
  IN IF r.err = NoFailure
       THEN [entry EXCEPT !.value = SetValue(entry.value.elems \cup {r.value}),
                          !.rest = Tail(entry.rest)]
     ELSE IF isWeak THEN [entry EXCEPT !.rest = Tail(entry.rest)]
     ELSE [entry EXCEPT !.err = r.err, !.value = UndefinedValue, !.rest = <<>>]

\* executeStepAsync from its call to its first await.  A step of set bindings
\* creates its first element alone, the others wait in rest; any other step
\* resolves its arguments and invokes its Functoid.  Result: [entry, log],
\* entry being [err, value, skip, state, rest].
startStep(step, insts, parent, log) ==
  LET keyStr == toMapKey(step.key)
      first == createInstanceForSetElement(step.key, Head(setBindingsOf(step)),
                                           insts, parent, log)
      whole == createInstance(step, insts, parent, log)
  IN IF mapHas(insts, keyStr)
       THEN [entry |-> [err |-> NoFailure, value |-> UndefinedValue, skip |-> TRUE,
                        state |-> "created", rest |-> <<>>],
             log |-> log]
     ELSE IF setBindingsOf(step) # <<>>
       THEN [entry |-> afterSetElementAsync(
                         [err |-> NoFailure, value |-> SetValue({}), skip |-> FALSE,
                          state |-> "created", rest |-> setBindingsOf(step)],
                         first),
             log |-> first.log]
     ELSE [entry |-> [err |-> whole.err, value |-> whole.value, skip |-> FALSE,
                      state |-> "created", rest |-> <<>>],
           log |-> whole.log]

\* The for loop over the ready steps: each is started in turn.  p maps the
\* key of a started step to its entry.  Result: [pending, log].
RECURSIVE startSteps(_, _, _, _, _)
startSteps(ready, insts, parent, p, log) ==
  IF ready = <<>> THEN [pending |-> p, log |-> log]
  ELSE startSteps(Tail(ready), insts, parent,
                  mapSet(p, toMapKey(Head(ready).key),
                         startStep(Head(ready), insts, parent, log).entry),
                  startStep(Head(ready), insts, parent, log).log)

\* One pass of the while loop of produceAsync, up to the await of Promise.race.
AsyncScan ==
  /\ UNCHANGED subVars
  /\ pc = "asyncScan"
  /\ Cardinality(completed) < Len(thePlan.steps)
  /\ LET ready == readySteps(thePlan.steps, completed, inProgress, instances)
         started == startSteps(ready, instances, parentLocator, pending, invocations)
         rejected == \E k \in inProgress : mapGet(pending, k).state = "rejected"
     IN IF Len(ready) = 0 /\ inProgress = {}
          THEN /\ pc' = "failed"
               /\ failure' = InvalidPlan
               /\ UNCHANGED <<asyncVars, invocations>>
          ELSE /\ pending' = started.pending
               /\ invocations' = started.log
               /\ inProgress' = inProgress \cup { toMapKey(ready[i].key) : i \in 1..Len(ready) }
               /\ raceSettled' = IF rejected THEN "rejected" ELSE "no"
               /\ pc' = "asyncAwait"
               /\ UNCHANGED <<completed, failure>>
  /\ UNCHANGED <<inputs, thePlan, instances, stepIdx, locator>>

\* createSetFromMultipleBindingsAsync resumes from the await of an element
\* and its loop comes to the next binding: that element is created.  The
\* continuations of the started steps run while the loop of produceAsync
\* runs, and after the call was rejected, since the promises of the other
\* steps are not cancelled.
AsyncSetElement(k) ==
  /\ UNCHANGED subVars
  /\ pc \in {"asyncScan", "asyncAwait", "failed"}
  /\ k \in inProgress
  /\ mapGet(pending, k).state = "created"
  /\ mapGet(pending, k).rest # <<>>
  /\ LET p == mapGet(pending, k)
         step == thePlan.steps[CHOOSE i \in 1..Len(thePlan.steps) :
                                 toMapKey(thePlan.steps[i].key) = k]
         r == createInstanceForSetElement(step.key, Head(p.rest),
                                          instances, parentLocator, invocations)
     IN /\ pending' = mapSet(pending, k, afterSetElementAsync(p, r))
        /\ invocations' = r.log
  /\ UNCHANGED <<inputs, pc, thePlan, instances, stepIdx, completed, inProgress,
                 raceSettled, failure, locator>>

\* executeStepAsync resumes after its await: the instance is stored, or the
\* step's promise is rejected with the error of the construction.
AsyncSettle(k) ==
  /\ UNCHANGED subVars
  /\ pc \in {"asyncScan", "asyncAwait", "failed"}
  /\ k \in inProgress
  /\ mapGet(pending, k).state = "created"
  /\ mapGet(pending, k).rest = <<>>
  /\ LET p == mapGet(pending, k) IN
       IF p.err # NoFailure
         THEN /\ pending' = mapSet(pending, k, [p EXCEPT !.state = "rejected"])
              /\ failure' = IF failure = NoFailure THEN p.err ELSE failure
              /\ raceSettled' = IF pc = "asyncAwait" /\ raceSettled = "no"
                                  THEN "rejected" ELSE raceSettled
              /\ UNCHANGED instances
         ELSE /\ pending' = mapSet(pending, k, [p EXCEPT !.state = "stored"])
              /\ instances' = IF p.skip THEN instances ELSE mapSet(instances, k, p.value)
              /\ UNCHANGED <<failure, raceSettled>>
  /\ UNCHANGED <<inputs, pc, thePlan, stepIdx, completed, inProgress, invocations, locator>>

\* The .then callback of a started step: completed.add, inProgress.delete.
AsyncThen(k) ==
  /\ UNCHANGED subVars
  /\ pc \in {"asyncScan", "asyncAwait", "failed"}
  /\ k \in inProgress
  /\ mapGet(pending, k).state = "stored"
  /\ completed' = completed \cup {k}
  /\ inProgress' = inProgress \ {k}
  /\ raceSettled' = IF pc = "asyncAwait" /\ raceSettled = "no" THEN "ok" ELSE raceSettled
  /\ UNCHANGED <<inputs, pc, thePlan, instances, stepIdx, pending, invocations,
                 failure, locator>>

\* produceAsync resumes from `await Promise.race(...)`.
AsyncResume ==
  /\ UNCHANGED subVars
  /\ pc = "asyncAwait"
  /\ raceSettled # "no"
  /\ pc' = IF raceSettled = "rejected" THEN "failed" ELSE "asyncScan"
  /\ UNCHANGED <<inputs, thePlan, instances, stepIdx, asyncVars, invocations,
                 failure, locator>>

\* The loop has ended: produceAsync returns the Locator.
AsyncReturn ==
  /\ UNCHANGED subVars
  /\ pc = "asyncScan"
  /\ Cardinality(completed) >= Len(thePlan.steps)
  /\ inProgress = {}
  /\ locator' = LocatorImpl(instances)
  /\ pc' = "done"
  /\ UNCHANGED <<inputs, thePlan, instances, stepIdx, asyncVars, invocations, failure>>

StepKeys == { toMapKey(k) : k \in {kA, kB, kC, kD, kX, kS, kT} }

Next ==
  \/ Plan
  \/ ProduceBegin
  \/ ExecuteStep
  \/ ProduceReturn
  \/ ProduceAsyncBegin
  \/ AsyncScan
  \/ \E k \in StepKeys : AsyncSetElement(k)
  \/ \E k \in StepKeys : AsyncSettle(k)
  \/ \E k \in StepKeys : AsyncThen(k)
  \/ AsyncResume
  \/ AsyncReturn

Spec == Init /\ [][Next]_vars

\* produceAsync under the scheduling of the event loop: a continuation that
\* can run (the scan, the next element of a set, the resumption of an awaited
\* step, a .then callback, the resumption after Promise.race, the return) is
\* eventually run.
SpecAsync ==
  /\ Init /\ [][Next]_vars
  /\ WF_vars(AsyncScan)
  /\ WF_vars(\E k \in StepKeys : AsyncSetElement(k))
  /\ WF_vars(\E k \in StepKeys : AsyncSettle(k))
  /\ WF_vars(\E k \in StepKeys : AsyncThen(k))
  /\ WF_vars(AsyncResume)
  /\ WF_vars(AsyncReturn)

(***************************************************************************)
(* Composition of modules: ModuleDef.append and ModuleDef.overriddenBy      *)
(***************************************************************************)
ComposeCatalogue == <<
  BClass(kB, "B", <<kD>>, {}),
  BInstance(kD, "dVal", {}),
  BClass(kD, "DProd", <<>>, Prod),
  BClass(kD, "DTest", <<>>, Test),
  BSet(kS, "Instance", "core", <<>>, FALSE, {}),
  BSet(kS, "Factory", "mkPluginD", <<kD>>, FALSE, Prod)
>>

InitCompose ==
  /\ baseModule \in Modules(ComposeCatalogue, MaxBindings)
  /\ overlayModule \in Modules(ComposeCatalogue, MaxBindings)
  /\ moduleDef = EmptyModule
  /\ roots = <<>>
  /\ activation \in Activations
  /\ parentLocator = NoLocator
  /\ pc = "compose"
  /\ thePlan = NoPlan
  /\ instances = <<>>
  /\ stepIdx = 1
  /\ completed = {}
  /\ inProgress = {}
  /\ pending = <<>>
  /\ raceSettled = "no"
  /\ invocations = <<>>
  /\ failure = NoFailure
  /\ locator = NoLocator
  /\ contexts = <<>>
  /\ lookup = NoLookup
  /\ resources = <<>>
  /\ acquired = <<>>
  /\ releases = <<>>
  /\ releaseCalls = NoReleaseCalls
  /\ pathActivation = NoPathActivation
  /\ selected = NoSelected

\* baseModule.append(overlayModule)
AppendModules ==
  /\ UNCHANGED subVars
  /\ pc = "compose"
  /\ moduleDef' = append(baseModule, overlayModule)
  /\ pc' = "appended"
  /\ UNCHANGED <<baseModule, overlayModule, roots, activation, parentLocator, thePlan,
                 instances, stepIdx, asyncVars, invocations, failure, locator>>

\* baseModule.overriddenBy(overlayModule)
OverriddenBy ==
  /\ UNCHANGED subVars
  /\ pc = "compose"
  /\ moduleDef' = overriddenBy(baseModule, overlayModule)
  /\ pc' = "overridden"
  /\ UNCHANGED <<baseModule, overlayModule, roots, activation, parentLocator, thePlan,
                 instances, stepIdx, asyncVars, invocations, failure, locator>>

NextCompose ==
  \/ AppendModules
  \/ OverriddenBy

SpecCompose == InitCompose /\ [][NextCompose]_vars

(***************************************************************************)
(* Lifecycle: LifecycleManager.acquire and releaseAll                       *)
(***************************************************************************)
\* One call of acquire: ok tells whether lifecycle.acquire returns a resource
\* (it throws otherwise), failing whether the release of that resource throws
\* (no release is ever called when there is no resource).
\* pushed is 0 until the resource is pushed and then the rank of its push
\* among all pushes; at is the number of releases called before the push.
\* A resource is named by the index of its call.
Acquisition(ok, failing, pushed, at) ==
  [ok |-> ok, failing |-> ok /\ failing, pushed |-> pushed, at |-> at]

\* pop() taking the first resource acquired
poppedFirst(stack) == stack[1]

\* this.resources.pop(): the resource taken
popped(stack) == stack[Len(stack)]

\* this.resources after pop()
afterPop(stack) == SubSeq(stack, 1, Len(stack) - 1)

\* The Locator of level n sharing the LifecycleManager of the root Locator
lifecycleManagerOfRoot(n) == "root"

\* The LifecycleManager held by the Locator of level n of a chain: the root
\* LocatorImpl was constructed with one, a Locator returned by the Producer
\* has none.
lifecycleManagerOf(n) == IF n = 1 THEN "root" ELSE Undefined

\* releaseAll run to its end on the stack: the releases called, in order.
RECURSIVE releasedInOrder(_)
releasedInOrder(stack) ==
  IF stack = <<>> THEN <<>>
  ELSE <<popped(stack)>> \o releasedInOrder(afterPop(stack))

InitLifecycle ==
  /\ baseModule = EmptyModule
  /\ overlayModule = EmptyModule
  /\ moduleDef = EmptyModule
  /\ roots = <<>>
  /\ activation = {}
  /\ parentLocator = NoLocator
  /\ pc = "lifecycle"
  /\ thePlan = NoPlan
  /\ instances = <<>>
  /\ stepIdx = 1
  /\ completed = {}
  /\ inProgress = {}
  /\ pending = <<>>
  /\ raceSettled = "no"
  /\ invocations = <<>>
  /\ failure = NoFailure
  /\ locator = NoLocator
  /\ contexts = <<>>
  /\ lookup = NoLookup
  /\ resources = <<>>
  /\ acquired = <<>>
  /\ releases = <<>>
  /\ releaseCalls = NoReleaseCalls
  /\ pathActivation = NoPathActivation
  /\ selected = NoSelected

lifecycleFrame == <<inputs, pc, thePlan, instances, stepIdx, asyncVars, invocations,
                    failure, locator, contexts, lookup, selectVars>>

\* manager.acquire(lifecycle) is called: lifecycle.acquire runs, and the call
\* is suspended on its await.
Acquire(ok, failing) ==
  /\ pc = "lifecycle"
  /\ Len(acquired) < MaxResources
  /\ Len(acquired) + Len(releaseCalls) < MaxLifecycleCalls
  /\ acquired' = Append(acquired, Acquisition(ok, failing, 0, 0))
  /\ UNCHANGED <<lifecycleFrame, resources, releases, releaseCalls>>

\* The call of acquire resumes from its await with the resource and pushes
\* it; a call whose lifecycle.acquire threw pushes nothing.
AcquirePush(j) ==
  /\ pc = "lifecycle"
  /\ j \in 1..Len(acquired)
  /\ acquired[j].ok
  /\ acquired[j].pushed = 0
  /\ resources' = Append(resources, j)
  /\ acquired' = [acquired EXCEPT ![j].pushed = Len(resources) + Len(releases) + 1,
                                  ![j].at = Len(releases)]
  /\ UNCHANGED <<lifecycleFrame, releases, releaseCalls>>

\* One call of releaseAll: its position (awaiting a release, returned, or
\* threw), the failing releases it has collected, the resource whose release
\* it awaits, the releases it has called itself, and the number of releases
\* called by any call before it began (from) and before it ended (to).
ReleaseCall(from) ==
  [pc |-> "called", errors |-> <<>>, current |-> 0, released |-> <<>>,
   from |-> from, to |-> 0]

\* The while loop of releaseAll from its test to its next await or to the end
\* of the call: the last resource of the stack is popped and its release
\* called, or, the stack being empty, the call returns or throws
\* AggregateLifecycleError.  called is the number of releases called so far.
releaseLoop(call, stack, called) ==
  IF Len(stack) > 0
    THEN [call EXCEPT !.pc = "awaiting", !.current = popped(stack),
                      !.released = Append(@, popped(stack))]
    ELSE [call EXCEPT !.pc = IF Len(call.errors) > 0 THEN "threw" ELSE "returned",
                      !.current = 0, !.to = called]

\* manager.releaseAll() (or LocatorImpl.close(), or the finally of use) is
\* called, whether or not another call is awaiting a release: it runs to its
\* first await, or returns at once on an empty stack.
ReleaseAllBegin ==
  /\ pc = "lifecycle"
  /\ Len(acquired) + Len(releaseCalls) < MaxLifecycleCalls
  /\ releaseCalls' = Append(releaseCalls,
                            releaseLoop(ReleaseCall(Len(releases)), resources,
                                        Len(releases)))
  /\ IF Len(resources) > 0
       THEN /\ releases' = Append(releases, popped(resources))
            /\ resources' = afterPop(resources)
       ELSE UNCHANGED <<resources, releases>>
  /\ UNCHANGED <<lifecycleFrame, acquired>>

\* The release awaited by call c has settled: its error, if any, is
\* collected, and the loop goes on to its next await or to its end.
ReleaseSettle(c) ==
  /\ pc = "lifecycle"
  /\ c \in 1..Len(releaseCalls)
  /\ releaseCalls[c].pc = "awaiting"
  /\ LET call == releaseCalls[c]
         settled == [call EXCEPT !.errors = IF acquired[call.current].failing
                                              THEN Append(@, call.current) ELSE @]
     IN releaseCalls' = [releaseCalls EXCEPT
                           ![c] = releaseLoop(settled, resources, Len(releases))]
  /\ IF Len(resources) > 0
       THEN /\ releases' = Append(releases, popped(resources))
            /\ resources' = afterPop(resources)
       ELSE UNCHANGED <<resources, releases>>
  /\ UNCHANGED <<lifecycleFrame, acquired>>

NextLifecycle ==
  \/ \E ok \in BOOLEAN, failing \in BOOLEAN : Acquire(ok, failing)
  \/ \E j \in 1..MaxResources : AcquirePush(j)
  \/ ReleaseAllBegin
  \/ \E c \in 1..MaxLifecycleCalls : ReleaseSettle(c)

SpecLifecycle == InitLifecycle /\ [][NextLifecycle]_vars

(***************************************************************************)
(* Subcontext: a child Locator produced on top of a parent Locator          *)
(***************************************************************************)
\* contexts[1] is a root LocatorImpl; contexts[n], n > 1, is the childLocator
\* of the Subcontext whose parent is the Locator of level n - 1.
SubcontextCatalogue == <<
  BInstance(kD, "childD", {}),
  BClass(kB, "B", <<kD>>, {}),
  BSet(kS, "Instance", "pluginA", <<>>, FALSE, {})
>>

\* Injector.getAllKeys: the roots taken under the option autoRoots
getAllKeys(module) == [i \in 1..Len(module) |-> module[i].key]

LookupKeys == {kD, kB, kS, kX}

RootLocators ==
  { LocatorImpl(<<>>),
    LocatorImpl(<<[k |-> toMapKey(kD), v |-> Value("rootD", 0)]>>),
    LocatorImpl(<<[k |-> toMapKey(kD), v |-> Value("rootD", 0)],
                  [k |-> toMapKey(kS), v |-> SetValue({Value("core", 0)})]>>) }

\* Result of a lookup that may throw.
Returned(value) == [threw |-> FALSE, value |-> value]
Threw == [threw |-> TRUE, value |-> UndefinedValue]

\* find of the Locator of level n: LocatorImpl.find for the root,
\* Subcontext.find (child first, then parent) above it.
RECURSIVE subcontextFind(_, _, _)
subcontextFind(ctxs, n, key) ==
  IF n = 1 THEN instancesGet(ctxs[1].instances, toMapKey(key))
  ELSE IF instancesGet(ctxs[n].instances, toMapKey(key)) # UndefinedValue
    THEN instancesGet(ctxs[n].instances, toMapKey(key))
  ELSE subcontextFind(ctxs, n - 1, key)

\* Subcontext.get asking the parent first
RECURSIVE subcontextGetParentFirst(_, _, _)
subcontextGetParentFirst(ctxs, n, key) ==
  IF n = 1
    THEN IF instancesGet(ctxs[1].instances, toMapKey(key)) = UndefinedValue
           THEN Threw
           ELSE Returned(instancesGet(ctxs[1].instances, toMapKey(key)))
  ELSE IF ~subcontextGetParentFirst(ctxs, n - 1, key).threw
    THEN subcontextGetParentFirst(ctxs, n - 1, key)
  ELSE IF instancesGet(ctxs[n].instances, toMapKey(key)) # UndefinedValue
    THEN Returned(instancesGet(ctxs[n].instances, toMapKey(key)))
  ELSE Threw

\* get of the Locator of level n: LocatorImpl.get for the root, Subcontext.get
\* above it.
RECURSIVE subcontextGet(_, _, _)
subcontextGet(ctxs, n, key) ==
  IF n = 1
    THEN IF instancesGet(ctxs[1].instances, toMapKey(key)) = UndefinedValue
           THEN Threw
           ELSE Returned(instancesGet(ctxs[1].instances, toMapKey(key)))
  ELSE IF instancesGet(ctxs[n].instances, toMapKey(key)) # UndefinedValue
    THEN Returned(instancesGet(ctxs[n].instances, toMapKey(key)))
  ELSE subcontextGet(ctxs, n - 1, key)

RECURSIVE subcontextHas(_, _, _)
subcontextHas(ctxs, n, key) ==
  IF n = 1 THEN locatorHas(ctxs[1], key)
  ELSE locatorHas(ctxs[n], key) \/ subcontextHas(ctxs, n - 1, key)

\* getSet / getNamedSet of the Locator of level n for the set key.
subcontextGetSet(ctxs, n, setKey) ==
  IF n = 1 THEN subcontextGet(ctxs, 1, setKey)
  ELSE
    LET parentSet == subcontextFind(ctxs, n - 1, setKey)
        childSet == instancesGet(ctxs[n].instances, toMapKey(setKey))
    IN IF parentSet # UndefinedValue /\ childSet # UndefinedValue
         THEN Returned(SetValue(parentSet.elems \cup childSet.elems))
       ELSE IF childSet # UndefinedValue THEN Returned(childSet)
       ELSE IF parentSet # UndefinedValue THEN Returned(parentSet)
       ELSE Threw

\* The Locator of level n as the Planner and the Producer of a child see it
\* through has and find.
ParentView(ctxs, n) ==
  IF n = 1 THEN ctxs[1]
  ELSE LET Held(k) == subcontextHas(ctxs, n, k)
           held == SelectSeq(<<kA, kB, kC, kD, kX, kS, kT>>, Held)
       IN LocatorImpl([i \in 1..Len(held) |->
                         [k |-> toMapKey(held[i]), v |-> subcontextFind(ctxs, n, held[i])]])

InitSubcontext ==
  /\ baseModule = EmptyModule
  /\ overlayModule = EmptyModule
  /\ moduleDef = EmptyModule
  /\ roots = <<>>
  /\ activation = {}
  /\ parentLocator = NoLocator
  /\ pc = "subcontext"
  /\ thePlan = NoPlan
  /\ instances = <<>>
  /\ stepIdx = 1
  /\ completed = {}
  /\ inProgress = {}
  /\ pending = <<>>
  /\ raceSettled = "no"
  /\ invocations = <<>>
  /\ failure = NoFailure
  /\ locator = NoLocator
  /\ \E root \in RootLocators : contexts = <<root>>
  /\ lookup = NoLookup
  /\ resources = <<1, 2>>
  /\ acquired = <<Acquisition(TRUE, FALSE, 1, 0), Acquisition(TRUE, FALSE, 2, 0)>>
  /\ releases = <<>>
  /\ releaseCalls = NoReleaseCalls
  /\ pathActivation = NoPathActivation
  /\ selected = NoSelected

\* new Subcontext(parent, childModule, [], {autoRoots: true}) on the innermost
\* Locator: the constructor plans and produces the child Locator, or throws.
CreateSubcontext ==
  /\ pc = "subcontext"
  /\ UNCHANGED selectVars
  /\ Len(contexts) < MaxDepth
  /\ \E childModule \in Modules(SubcontextCatalogue, MaxBindings) :
       LET parent == ParentView(contexts, Len(contexts))
           p == plan(childModule, getAllKeys(childModule), {}, parent)
           produced == produce(p.steps, <<>>, parent, invocations)
       IN /\ invocations' = IF p.err = NoErr THEN produced.log ELSE invocations
          /\ IF p.err = NoErr /\ produced.err = NoFailure
               THEN /\ contexts' = Append(contexts, LocatorImpl(produced.instances))
                    /\ lookup' = NoLookup
               ELSE /\ lookup' = [op |-> "createSubcontext", key |-> NoKey,
                                  threw |-> TRUE, value |-> UndefinedValue]
                    /\ UNCHANGED contexts
  /\ UNCHANGED <<inputs, pc, thePlan, instances, stepIdx, asyncVars,
                 failure, locator, lifecycleVars>>

\* subcontext.get(key) on the innermost Subcontext
SubcontextGet(key) ==
  /\ pc = "subcontext"
  /\ UNCHANGED selectVars
  /\ Len(contexts) >= 2
  /\ lookup' = [op |-> "get", key |-> key,
                threw |-> subcontextGet(contexts, Len(contexts), key).threw,
                value |-> subcontextGet(contexts, Len(contexts), key).value]
  /\ UNCHANGED <<inputs, pc, thePlan, instances, stepIdx, asyncVars, invocations,
                 failure, locator, contexts, lifecycleVars>>

\* subcontext.find(key)
SubcontextFind(key) ==
  /\ pc = "subcontext"
  /\ UNCHANGED selectVars
  /\ Len(contexts) >= 2
  /\ lookup' = [op |-> "find", key |-> key, threw |-> FALSE,
                value |-> subcontextFind(contexts, Len(contexts), key)]
  /\ UNCHANGED <<inputs, pc, thePlan, instances, stepIdx, asyncVars, invocations,
                 failure, locator, contexts, lifecycleVars>>

\* subcontext.has(key)
SubcontextHas(key) ==
  /\ pc = "subcontext"
  /\ UNCHANGED selectVars
  /\ Len(contexts) >= 2
  /\ lookup' = [op |-> "has", key |-> key, threw |-> FALSE,
                value |-> IF subcontextHas(contexts, Len(contexts), key)
                            THEN Value("true", 0) ELSE Value("false", 0)]
  /\ UNCHANGED <<inputs, pc, thePlan, instances, stepIdx, asyncVars, invocations,
                 failure, locator, contexts, lifecycleVars>>

\* subcontext.getSet(type), setKey being DIKey.set(type)
SubcontextGetSet(setKey) ==
  /\ pc = "subcontext"
  /\ UNCHANGED selectVars
  /\ Len(contexts) >= 2
  /\ lookup' = [op |-> "getSet", key |-> setKey,
                threw |-> subcontextGetSet(contexts, Len(contexts), setKey).threw,
                value |-> subcontextGetSet(contexts, Len(contexts), setKey).value]
  /\ UNCHANGED <<inputs, pc, thePlan, instances, stepIdx, asyncVars, invocations,
                 failure, locator, contexts, lifecycleVars>>

\* subcontext.close(): childLocator.close(), which runs releaseAll on the
\* LifecycleManager of the child Locator if it holds one.
SubcontextClose ==
  /\ pc = "subcontext"
  /\ UNCHANGED selectVars
  /\ Len(contexts) >= 2
  /\ lookup' = [op |-> "close", key |-> NoKey, threw |-> FALSE, value |-> UndefinedValue]
  /\ IF lifecycleManagerOf(Len(contexts)) = "root"
       THEN /\ releases' = releases \o releasedInOrder(resources)
            /\ resources' = <<>>
       ELSE UNCHANGED <<resources, releases>>
  /\ UNCHANGED <<inputs, pc, thePlan, instances, stepIdx, asyncVars, invocations,
                 failure, locator, contexts, acquired, releaseCalls>>

NextSubcontext ==
  \/ CreateSubcontext
  \/ \E key \in LookupKeys : SubcontextGet(key)
  \/ \E key \in LookupKeys : SubcontextFind(key)
  \/ \E key \in LookupKeys : SubcontextHas(key)
  \/ \E setKey \in {kS, kT} : SubcontextGetSet(setKey)
  \/ SubcontextClose

SpecSubcontext == InitSubcontext /\ [][NextSubcontext]_vars

TypeOK ==
  pc \in {"start", "planned", "planFailed", "produce", "asyncScan", "asyncAwait",
          "failed", "done", "compose", "appended", "overridden", "subcontext", "lifecycle", "select"}

(***************************************************************************)
(* selectBinding under a PathActivation that grows along a traversal path   *)
(***************************************************************************)
\* The candidates of one key: bindings of D under every kind of tagging, and
\* the element bindings of Set<P>.
SelectCatalogue == <<
  BInstance(kD, "dVal", {}),
  BClass(kD, "DProd", <<>>, Prod),
  BClass(kD, "DUS", <<>>, {<<"Region", "US">>}),
  BClass(kD, "DProdUS", <<>>, ProdUS),
  BClass(kD, "DTest", <<>>, Test),
  BSet(kS, "Instance", "core", <<>>, FALSE, {}),
  BSet(kS, "Instance", "pluginProd", <<>>, FALSE, Prod),
  BSet(kS, "Instance", "pluginUS", <<>>, FALSE, {<<"Region", "US">>})
>>

\* The tags of the bindings selected higher on the path.
PathTags == { {}, Prod, Test, {<<"Region", "US">>}, ProdUS }

\* bindingIndex.get(key.toMapKey()) of traceDependencies
candidatesOf(bindings, key) ==
  LET bindingIndex == groupBindings(<<>>, bindings)
  IN IF mapHas(bindingIndex, toMapKey(key))
       THEN mapGet(bindingIndex, toMapKey(key)) ELSE <<>>

\* traceDependencies down to the call of selectBinding: `path.keys` is the
\* `path` argument, the keys above the one traced, and the last of them is
\* passed as requiredBy.
selectUnder(path) ==
  selectBinding(roots[1], candidatesOf(moduleDef, roots[1]), path.pa, path.heap,
                requiredByOf(path.keys))

InitSelect ==
  /\ baseModule = EmptyModule
  /\ overlayModule = EmptyModule
  /\ moduleDef \in Modules(SelectCatalogue, MaxBindings)
  /\ roots \in { <<kD>>, <<kS>> }
  /\ candidatesOf(moduleDef, roots[1]) # <<>>
  /\ activation \in Activations
  /\ parentLocator = NoLocator
  /\ pc = "select"
  /\ thePlan = NoPlan
  /\ instances = <<>>
  /\ stepIdx = 1
  /\ completed = {}
  /\ inProgress = {}
  /\ pending = <<>>
  /\ raceSettled = "no"
  /\ invocations = <<>>
  /\ failure = NoFailure
  /\ locator = NoLocator
  /\ contexts = <<>>
  /\ lookup = NoLookup
  /\ resources = <<>>
  /\ acquired = <<>>
  /\ releases = <<>>
  /\ releaseCalls = NoReleaseCalls
  /\ pathActivation = [pa |-> fromActivation(activation), heap |-> <<>>,
                       keys |-> <<>>, added |-> <<>>]
  /\ selected = NoSelected

selectFrame == <<inputs, pc, thePlan, instances, stepIdx, asyncVars, invocations,
                 failure, locator, contexts, lookup, lifecycleVars>>

\* selectBinding at the root of the path: PathActivation.fromActivation
SelectAtRoot ==
  /\ pc = "select"
  /\ pathActivation.added = <<>>
  /\ selected.now = NoSelection
  /\ selected' = [before |-> NoSelection, now |-> selectUnder(pathActivation)]
  /\ UNCHANGED <<selectFrame, pathActivation>>

\* One level further down the path: a binding carrying `tags`, valid under
\* the path so far, was selected above for a key not yet on the path; the
\* constraints of its tags are added, its key is pushed on the path, and the
\* key is selected under the extended path with that key as requiredBy.
SelectBelow(tags) ==
  /\ pc = "select"
  /\ selected.now # NoSelection
  /\ Len(pathActivation.added) < MaxDepth
  /\ LET above == BInstance(<<kA, kB, kC, kX>>[Len(pathActivation.keys) + 1],
                            "above", tags)
         extended == withBindingConstraints(pathActivation.pa, above,
                                            pathActivation.heap)
         path == [pa |-> extended.pa, heap |-> extended.heap,
                  keys |-> Append(pathActivation.keys, above.key),
                  added |-> Append(pathActivation.added, tags)]
     IN /\ isBindingValid(pathActivation.pa, above, pathActivation.heap)
        /\ pathActivation' = path
        /\ selected' = [before |-> selected.now, now |-> selectUnder(path)]
  /\ UNCHANGED selectFrame

NextSelect ==
  \/ SelectAtRoot
  \/ \E tags \in PathTags : SelectBelow(tags)

SpecSelect == InitSelect /\ [][NextSelect]_vars

(***************************************************************************)
(* Properties                                                              *)
(***************************************************************************)
\* Planner.plan has just returned a Plan (thePlan does not change afterwards)
PlanReturned == pc = "planned"

\* Planner.plan has just returned or thrown
PlanEnded == pc \in {"planned", "planFailed"}

ServedByParent(key) == parentLocator.present /\ locatorHas(parentLocator, key)

StepIndex(key) ==
  { i \in 1..Len(thePlan.steps) : toMapKey(thePlan.steps[i].key) = toMapKey(key) }

\* C1: in every Plan the Planner returns, each dependency of every step is
\* the key of a step placed strictly earlier in the Plan, or is present in
\* the parent Locator.
C1_TopologicalSoundness ==
  PlanReturned =>
    \A i \in 1..Len(thePlan.steps) :
      \A d \in Range(thePlan.steps[i].dependencies) :
        \/ \E j \in StepIndex(d) : j < i
        \/ ServedByParent(d)

\* C2: within one produce or produceAsync call no constructor or factory
\* bound to a key is invoked twice, every argument handed to a constructor is
\* the instance the instance map holds for that dependency, and the Locator
\* returned holds that same instance.
C2_SingletonPerKey ==
  /\ \A i, j \in 1..Len(invocations) :
       (invocations[i].key = invocations[j].key
          /\ invocations[i].impl = invocations[j].impl) => i = j
  /\ \A i \in 1..Len(invocations) :
       \A a \in 1..Len(invocations[i].deps) :
         LET dep == invocations[i].deps[a] IN
         /\ mapHas(instances, toMapKey(dep))
              => invocations[i].args[a] = mapGet(instances, toMapKey(dep))
         /\ (pc = "done" /\ locatorHas(locator, dep))
              => invocations[i].args[a] = locatorFind(locator, dep)

\* A diamond was produced asynchronously: two constructors received the
\* instance of a dependency that was itself constructed in this call.
C2_Witness ==
  /\ pc = "done"
  /\ completed # {}
  /\ \E i, j, d \in 1..Len(invocations) :
       /\ i # j /\ i # d /\ j # d
       /\ invocations[i].key # invocations[j].key
       /\ invocations[d].result \in Range(invocations[i].args)
       /\ invocations[d].result \in Range(invocations[j].args)
       /\ locatorFind(locator, invocations[d].key) = invocations[d].result

\* The outcome of planning one key on its own.
PlansAlone(key) == plan(moduleDef, <<key>>, activation, parentLocator).err.kind

ValidSetBindings(setKey) ==
  { i \in 1..Len(moduleDef) :
      /\ isSetBinding(moduleDef[i])
      /\ toMapKey(moduleDef[i].key) = toMapKey(setKey)
      /\ matches(moduleDef[i].tags, activation) }

\* a weak element with a dependency that cannot be resolved
WeakUnresolvable(b) ==
  /\ b.weak
  /\ \E d \in Range(getDependencies(b)) :
       PlansAlone(d) \in {"MissingDependency", "AxisConflict"}

Resolvable(b) == \A d \in Range(getDependencies(b)) : PlansAlone(d) = "none"

ProducedSet(setKey) ==
  IF locatorHas(locator, setKey) THEN locatorFind(locator, setKey).elems ELSE {}

\* C3: when the set key is the root and every element binding valid for it is
\* either weak with an unresolvable dependency or has all its dependencies
\* resolvable, planning succeeds, and the set produced holds exactly the
\* elements of the resolvable bindings, however many bindings the key has.
C3_WeakElementDropped ==
  \A setKey \in {kS, kT} :
    (/\ pc # "start"
     /\ roots = <<setKey>>
     /\ \E i \in ValidSetBindings(setKey) : WeakUnresolvable(moduleDef[i])
     /\ \A i \in ValidSetBindings(setKey) :
          WeakUnresolvable(moduleDef[i]) \/ Resolvable(moduleDef[i]))
    => /\ thePlan.err = NoErr
       /\ pc = "done" =>
            { v.impl : v \in ProducedSet(setKey) } =
              { moduleDef[i].impl :
                  i \in { j \in ValidSetBindings(setKey) : Resolvable(moduleDef[j]) } }

\* The steps reachable from step i through dependencies (i included).
RECURSIVE ReachableSteps(_, _)
ReachableSteps(frontier, seen) ==
  IF frontier \subseteq seen THEN seen
  ELSE ReachableSteps(
         UNION { StepIndex(d) :
                   d \in UNION { Range(thePlan.steps[i].dependencies) : i \in frontier } },
         seen \cup frontier)

TagsConflict(b1, b2) ==
  \E t1 \in b1.tags : \E t2 \in b2.tags : t1[1] = t2[1] /\ t1[2] # t2[2]

\* C4: in a Plan the Planner returns, no binding selected for a key conflicts
\* on an axis with a binding selected for one of the key's ancestors on a
\* dependency path.
C4_NoAxisConflictOnPath ==
  PlanReturned =>
    \A i \in 1..Len(thePlan.steps) :
      \A j \in ReachableSteps({i}, {}) :
        \A b1 \in Range(thePlan.steps[i].bindings) :
          \A b2 \in Range(thePlan.steps[j].bindings) : ~TagsConflict(b1, b2)

\* A Plan with a tagged binding below a tagged ancestor.
C4_Witness ==
  /\ PlanReturned
  /\ \E i \in 1..Len(thePlan.steps) :
       \E j \in ReachableSteps({i}, {}) \ {i} :
         /\ thePlan.steps[i].bindings[1].tags # {}
         /\ thePlan.steps[j].bindings[1].tags # {}

\* The distinct values the bindings contribute: two Instance elements
\* bound to the same pre-built value are one element of a JavaScript Set.
DistinctElements(bindingIdx) == { moduleDef[i].impl : i \in bindingIdx }

\* C5: for every set key held by a produced Locator, the size of the set
\* equals the number of (distinct elements of the) set-element bindings of the
\* module for that key whose tags match the Activation and whose dependencies
\* resolve.
C5_SetSize ==
  pc = "done" =>
    \A setKey \in {kS, kT} :
      locatorHas(locator, setKey) =>
        Cardinality(locatorFind(locator, setKey).elems) =
          Cardinality(DistinctElements(
            { i \in ValidSetBindings(setKey) : Resolvable(moduleDef[i]) }))

\* C6: overriddenBy keeps every set-element binding of the base module and
\* every set-element binding of the overlay.
C6_OverrideKeepsSetElements ==
  pc = "overridden" =>
    \A b \in Range(baseModule) \cup Range(overlayModule) :
      isSetBinding(b) => b \in Range(moduleDef)

\* The binding the Planner selects for a key planned as the only root of a
\* module: <<>> when selection fails.
SelectedFrom(module, key) ==
  LET p == plan(module, <<key>>, activation, NoLocator)
  IN IF p.selections # <<>> /\ p.selections[1].key = key
       THEN p.selections[1].selected
       ELSE <<>>

HasBindingFor(module, key) ==
  \E b \in Range(module) : toMapKey(b.key) = toMapKey(key)

\* C7: for every non-set key bound in the overlay, the binding selected from
\* overriddenBy(base, overlay) is the binding selected from the overlay alone
\* when there is one, and the binding selected from the base otherwise.
C7_OverrideSelection ==
  pc = "overridden" =>
    \A key \in {kB, kD} :
      HasBindingFor(overlayModule, key) =>
        SelectedFrom(moduleDef, key) =
          IF SelectedFrom(overlayModule, key) # <<>>
            THEN SelectedFrom(overlayModule, key)
            ELSE SelectedFrom(baseModule, key)

\* C8: overriding a module by the empty module yields the bindings of the
\* module itself.
C8_OverrideByEmpty ==
  (pc = "overridden" /\ overlayModule = EmptyModule) => moduleDef = baseModule

MaxTags(bindings) == MaxOf({ Cardinality(bindings[i].tags) : i \in 1..Len(bindings) })

MostTagged(bindings) ==
  { i \in 1..Len(bindings) : Cardinality(bindings[i].tags) = MaxTags(bindings) }

\* What C9 says of one selectBinding call
MostSpecificSelected(e) ==
  /\ \A i \in MostTagged(e.valid) :
       MostTagged(e.valid) = {i} => e.selected = <<e.valid[i]>>
  /\ \A b \in Range(e.selected) :
       b.tags = {} => \A v \in Range(e.valid) : v.tags = {}

\* C9 as stated: among the valid candidates the one with the most tags is
\* selected whenever it is unique, and an untagged binding is selected only
\* when no tagged candidate is valid.
C9_MostSpecificAlways ==
  PlanEnded => \A n \in 1..Len(thePlan.selections) : MostSpecificSelected(thePlan.selections[n])

Accumulated(e) ==
  Len(e.valid) > 1 /\ \A v \in Range(e.valid) : isSetBinding(v)

\* C9 amended: unless two or more candidates are valid and all of them are
\* set-element bindings (then all of them are selected), the valid candidate
\* with the most tags is selected whenever it is unique, and an untagged
\* binding is selected only when no tagged candidate is valid.
C9_MostSpecificUnlessAccumulated ==
  PlanEnded =>
    \A n \in 1..Len(thePlan.selections) :
      LET e == thePlan.selections[n] IN
      IF Accumulated(e) THEN e.selected = e.valid ELSE MostSpecificSelected(e)

\* A key with an untagged, a one-tag and a two-tag candidate all valid
C9_Witness ==
  PlanReturned /\ \E n \in 1..Len(thePlan.selections) :
    LET e == thePlan.selections[n] IN
    /\ ~Accumulated(e)
    /\ \E v \in Range(e.valid) : v.tags = {}
    /\ \E v \in Range(e.valid) : Cardinality(v.tags) = 1
    /\ Cardinality(e.selected[1].tags) = 2

RootOrders(seq) ==
  { p \in [1..Len(seq) -> Range(seq)] : \A i, j \in 1..Len(seq) : i # j => p[i] # p[j] }

SelectedIn(p, key) ==
  { p.steps[i].bindings : i \in { j \in 1..Len(p.steps) : toMapKey(p.steps[j].key) = toMapKey(key) } }

\* C10: the roots listed in another order give a Plan exactly when the given
\* order does, and the two Plans select the same bindings for every key.
C10_SelectionIndependentOfOrder ==
  PlanEnded =>
    \A r \in RootOrders(roots) :
      LET other == plan(moduleDef, r, activation, parentLocator) IN
      /\ (other.err = NoErr) = (thePlan.err = NoErr)
      /\ \A key \in {kA, kB, kC, kD, kX, kS, kT} :
           SelectedIn(other, key) = SelectedIn(thePlan, key)

\* Two roots, the second of which is a dependency of the first, so that the
\* order of the roots decides along which path the key is first reached.
C10_Witness ==
  /\ pc = "planned"
  /\ Len(roots) = 2
  /\ Len(thePlan.steps) >= 2
  /\ \E i \in StepIndex(roots[1]) : StepIndex(roots[2]) \subseteq ReachableSteps({i}, {}) \ {i}
  /\ \E i \in StepIndex(roots[2]) : thePlan.steps[i].bindings[1].tags # {}

\* bindingIndex.get(key): the bindings of the key, in module order
CandidatesOf(key) ==
  LET HasKey(b) == toMapKey(b.key) = toMapKey(key)
  IN SelectSeq(moduleDef, HasKey)

\* The outcome of selecting a binding for the key under the Activation alone.
SelectionOf(key) ==
  selectBinding(key, CandidatesOf(key), fromActivation(activation), <<>>, NoKey)

\* The key has a selected binding, or has no binding and is served by the parent.
Wired(key) ==
  IF CandidatesOf(key) = <<>> THEN ServedByParent(key)
  ELSE SelectionOf(key).err = NoErr

\* The keys the selected binding(s) of the key depend on.
DependenciesOf(key) ==
  IF CandidatesOf(key) = <<>> \/ SelectionOf(key).err # NoErr THEN {}
  ELSE UNION { Range(getDependencies(b)) : b \in Range(SelectionOf(key).bindings) }

RECURSIVE ReachableKeys(_, _)
ReachableKeys(frontier, seen) ==
  IF frontier \subseteq seen THEN seen
  ELSE ReachableKeys(UNION { DependenciesOf(k) : k \in frontier }, seen \cup frontier)

\* The keys reachable from the roots, the roots included.
ReachableFromRoots == ReachableKeys(Range(roots), {})

OnCycle(key) == key \in ReachableKeys(DependenciesOf(key), {})

\* path is a traversal path: it starts at a root, follows dependencies of the
\* selected bindings, visits distinct keys, and ends on a key it re-enters.
IsCyclePath(path) ==
  /\ Len(path) >= 2
  /\ path[1] \in Range(roots)
  /\ \A i \in 1..(Len(path) - 1) : path[i + 1] \in DependenciesOf(path[i])
  /\ \A i, j \in 1..(Len(path) - 1) : i # j => path[i] # path[j]
  /\ \E i \in 1..(Len(path) - 1) : path[i] = path[Len(path)]

CycleReachable ==
  /\ \A k \in ReachableFromRoots : Wired(k)
  /\ \E k \in ReachableFromRoots : OnCycle(k)

\* C11: when every key reachable from the roots is wired and the graph of the
\* selected bindings has a cycle, planning fails with CircularDependency whose
\* key list is the traversal path followed by the key re-entered; for
\* A -> B -> D -> A planned from root A the list is <<A, B, D, A>>.
C11_CycleReported ==
  (PlanEnded /\ CycleReachable) =>
    /\ thePlan.err.kind = "CircularDependency"
    /\ IsCyclePath(thePlan.err.path)
    /\ (roots = <<kA>> /\ DependenciesOf(kB) = {kD} /\ DependenciesOf(kD) = {kA})
         => thePlan.err.path = <<kA, kB, kD, kA>>

\* The cycle A -> B -> D -> A was planned from root A.
C11_Witness ==
  /\ pc = "planFailed"
  /\ CycleReachable
  /\ roots = <<kA>>
  /\ thePlan.err.path = <<kA, kB, kD, kA>>

\* The key has no binding in the module and is not in the parent Locator.
Absent(key) == CandidatesOf(key) = <<>> /\ ~ServedByParent(key)

IsWeakElement(b) == isSetBinding(b) /\ b.weak

\* The dependencies of the key's selected binding(s), in order, those of weak
\* set elements left out.
StrongDependencies(key) ==
  IF CandidatesOf(key) = <<>> \/ SelectionOf(key).err # NoErr THEN <<>>
  ELSE LET sel == SelectionOf(key).bindings
           RECURSIVE Concat(_)
           Concat(i) == IF i > Len(sel) THEN <<>>
                        ELSE (IF IsWeakElement(sel[i]) THEN <<>>
                              ELSE getDependencies(sel[i])) \o Concat(i + 1)
       IN Concat(1)

\* The first absent key a depth-first walk of the keys meets, NoKey if none:
\* the walk follows StrongDependencies up to the given depth.
RECURSIVE FirstAbsent(_, _)
FirstAbsent(keys, depth) ==
  IF keys = <<>> \/ depth = 0 THEN NoKey
  ELSE IF Absent(Head(keys)) THEN Head(keys)
  ELSE LET below == FirstAbsent(StrongDependencies(Head(keys)), depth - 1)
       IN IF below # NoKey THEN below ELSE FirstAbsent(Tail(keys), depth)

NoCycleReachable == \A k \in ReachableFromRoots : ~OnCycle(k)

\* C12: when an absent key is reachable from a root outside weak set
\* elements, while every other reachable key is wired and no cycle is
\* reachable, planning fails with MissingDependency naming an absent key (the
\* first one of the walk when the module has no weak element), and no Locator
\* is produced.
C12_MissingReported ==
  (/\ PlanEnded
   /\ FirstAbsent(roots, Cardinality(AllKeys)) # NoKey
   /\ \A k \in ReachableFromRoots : Wired(k) \/ Absent(k)
   /\ NoCycleReachable)
  => /\ pc = "planFailed"
     /\ thePlan.err.kind = "MissingDependency"
     /\ Absent(thePlan.err.key)
     /\ (\A b \in Range(moduleDef) : ~IsWeakElement(b))
          => thePlan.err.key = FirstAbsent(roots, Cardinality(AllKeys))

\* Every binding of the key is tagged, on one axis the Activation chooses on,
\* with a choice other than the Activation's.
Contradicted(key) ==
  /\ CandidatesOf(key) # <<>>
  /\ \E a \in Axes :
       /\ getChoice(activation, a) # Undefined
       /\ \A b \in Range(CandidatesOf(key)) :
            \E t \in b.tags : t[1] = a /\ t[2] # getChoice(activation, a)

\* The key has no binding valid under the Activation and no parent serves it.
Unselectable(key) ==
  \/ Absent(key)
  \/ CandidatesOf(key) # <<>> /\ SelectionOf(key).err.kind \in {"MissingDependency", "AxisConflict"}

FirstOf(first, other) == IF first # NoKey THEN first ELSE other

\* The first unselectable key a depth-first walk of the keys meets, NoKey if
\* none: the walk follows StrongDependencies up to the given depth.
RECURSIVE FirstUnselectable(_, _)
FirstUnselectable(keys, depth) ==
  IF keys = <<>> \/ depth = 0 THEN NoKey
  ELSE IF Unselectable(Head(keys)) THEN Head(keys)
  ELSE FirstOf(FirstUnselectable(StrongDependencies(Head(keys)), depth - 1),
               FirstUnselectable(Tail(keys), depth))

\* The walk from the roots meets a contradicted key before any other failure.
ContradictedFirst ==
  /\ FirstUnselectable(roots, Cardinality(AllKeys)) # NoKey
  /\ Contradicted(FirstUnselectable(roots, Cardinality(AllKeys)))
  /\ \A k \in ReachableFromRoots : Wired(k) \/ Unselectable(k)
  /\ NoCycleReachable

\* C13: when the Activation contradicts every binding of the first key the
\* traversal fails on, planning raises AxisConflict on that key.
C13_ContradictedIsAxisConflict ==
  (PlanEnded /\ ContradictedFirst) =>
    /\ pc = "planFailed"
    /\ thePlan.err.kind = "AxisConflict"
    /\ thePlan.err.key = FirstUnselectable(roots, Cardinality(AllKeys))

\* The module holds two non-set bindings of the key with identical tag sets.
Tied(key) ==
  \E i, j \in 1..Len(CandidatesOf(key)) :
    /\ i < j
    /\ ~isSetBinding(CandidatesOf(key)[i]) /\ ~isSetBinding(CandidatesOf(key)[j])
    /\ CandidatesOf(key)[i].tags = CandidatesOf(key)[j].tags

\* Two such bindings match the Activation and no binding of the key that
\* matches the Activation carries more tags.
TiedMostSpecific(key) ==
  \E i, j \in 1..Len(CandidatesOf(key)) :
    /\ i < j
    /\ ~isSetBinding(CandidatesOf(key)[i]) /\ ~isSetBinding(CandidatesOf(key)[j])
    /\ CandidatesOf(key)[i].tags = CandidatesOf(key)[j].tags
    /\ matches(CandidatesOf(key)[i].tags, activation)
    /\ \A b \in Range(CandidatesOf(key)) :
         matches(b.tags, activation)
           => specificity(b.tags) <= specificity(CandidatesOf(key)[i].tags)

\* The dependencies of the key's selected binding(s), in the order they are
\* traced: binding by binding, those of weak set elements included.
TracedDependencies(key) ==
  IF CandidatesOf(key) = <<>> \/ SelectionOf(key).err # NoErr THEN <<>>
  ELSE LET sel == SelectionOf(key).bindings
           RECURSIVE Concat(_)
           Concat(i) == IF i > Len(sel) THEN <<>>
                        ELSE getDependencies(sel[i]) \o Concat(i + 1)
       IN Concat(1)

\* The first key of a depth-first walk of the keys that is tied or not wired,
\* NoKey if none: the walk follows TracedDependencies up to the given depth.
RECURSIVE FirstTiedOrUnwired(_, _)
FirstTiedOrUnwired(keys, depth) ==
  IF keys = <<>> \/ depth = 0 THEN NoKey
  ELSE IF Tied(Head(keys)) \/ ~Wired(Head(keys)) THEN Head(keys)
  ELSE FirstOf(FirstTiedOrUnwired(TracedDependencies(Head(keys)), depth - 1),
               FirstTiedOrUnwired(Tail(keys), depth))

\* The walk from the roots reaches a tied key before any key that is not
\* wired, beneath a weak set element or not.
TiedFirst ==
  /\ FirstTiedOrUnwired(roots, Cardinality(AllKeys)) # NoKey
  /\ Tied(FirstTiedOrUnwired(roots, Cardinality(AllKeys)))
  /\ NoCycleReachable

\* C14 as stated: when the traversal reaches a key with two non-set bindings
\* of identical tag sets, planning raises ConflictingBindings at that key.
C14_TieAlwaysConflicts ==
  (PlanEnded /\ TiedFirst) =>
    /\ pc = "planFailed"
    /\ thePlan.err.kind = "ConflictingBindings"
    /\ thePlan.err.key = FirstTiedOrUnwired(roots, Cardinality(AllKeys))

\* C14 amended: when the traversal reaches a key with two non-set bindings of
\* identical tag sets that match the Activation, and no matching binding of
\* the key carries more tags, planning raises ConflictingBindings at that key.
C14_MostSpecificTieConflicts ==
  (PlanEnded /\ TiedFirst
     /\ TiedMostSpecific(FirstTiedOrUnwired(roots, Cardinality(AllKeys)))) =>
    /\ pc = "planFailed"
    /\ thePlan.err.kind = "ConflictingBindings"
    /\ thePlan.err.key = FirstTiedOrUnwired(roots, Cardinality(AllKeys))

\* Planning root Set<P> failed on X, which has two untagged bindings and is
\* reached through the weak element PluginT of Set<P> and a weak element of
\* Set<Q> beneath it.
C14_Witness ==
  /\ pc = "planFailed"
  /\ TiedFirst
  /\ roots = <<kS>>
  /\ \E b \in Range(SelectionOf(kS).bindings) : IsWeakElement(b) /\ getDependencies(b) = <<kT>>
  /\ \A b \in Range(SelectionOf(kT).bindings) : IsWeakElement(b) /\ getDependencies(b) = <<kX>>
  /\ TiedMostSpecific(kX)
  /\ thePlan.err.kind = "ConflictingBindings"
  /\ thePlan.err.key = kX

PlanStepKeys == { toMapKey(thePlan.steps[i].key) : i \in 1..Len(thePlan.steps) }

\* The Functoid invocation was handed, for each dependency that is a step of
\* the Plan, the instance that step had stored before the invocation.
InvokedAfterDependencies(invocation) ==
  \A i \in 1..Len(invocation.deps) :
    toMapKey(invocation.deps[i]) \in PlanStepKeys =>
      /\ mapHas(instances, toMapKey(invocation.deps[i]))
      /\ invocation.args[i] = mapGet(instances, toMapKey(invocation.deps[i]))

\* C15: in produce and produceAsync, whenever a Functoid is invoked for a
\* step, every dependency of it that is a step of the same Plan has its
\* instance stored already, under every interleaving of step completions.
C15_DependenciesBuiltFirst ==
  [][\A j \in (Len(invocations) + 1)..Len(invocations') :
       InvokedAfterDependencies(invocations'[j])]_vars

\* produceAsync has invoked the Functoid of B after the step of its dependency
\* D completed, D being held by the parent Locator as well.
C15_Witness ==
  /\ pc \in {"asyncScan", "asyncAwait"}
  /\ toMapKey(kD) \in completed
  /\ ServedByParent(kD)
  /\ \E j \in 1..Len(invocations) :
       /\ invocations[j].key = kB
       /\ invocations[j].deps = <<kD>>
       /\ invocations[j].args = <<mapGet(instances, toMapKey(kD))>>

\* An instance without the serial number of its construction.
Built(value) == [impl |-> value.impl, elems |-> { e.impl : e \in value.elems }]

\* The two instance maps hold the same keys with equally constructed values.
SameInstances(m1, m2) ==
  /\ { m1[i].k : i \in 1..Len(m1) } = { m2[i].k : i \in 1..Len(m2) }
  /\ \A i \in 1..Len(m1) : Built(m1[i].v) = Built(mapGet(m2, m1[i].k))

AsyncReturned ==
  pc = "done" /\ stepIdx = 1 /\ Cardinality(completed) >= Len(thePlan.steps)

AsyncFailed == pc = "failed" /\ (failure = InvalidPlan \/ pending # <<>>)

\* C16: produceAsync returns exactly when produce on the same Plan and parent
\* Locator returns, and then with the same instance map.
C16_AsyncEquivalent ==
  /\ AsyncReturned =>
       /\ produce(thePlan.steps, <<>>, parentLocator, <<>>).err = NoFailure
       /\ SameInstances(instances,
                        produce(thePlan.steps, <<>>, parentLocator, <<>>).instances)
  /\ AsyncFailed =>
       produce(thePlan.steps, <<>>, parentLocator, <<>>).err # NoFailure

\* produceAsync is suspended on `await Promise.race(...)` and no started step
\* has completed since the scan.
Waiting == pc = "asyncAwait" /\ raceSettled = "no"

\* The step has not completed and each of its dependencies is completed, in
\* the instance map, or held by the parent Locator.
ReadyCountingParent(step) ==
  /\ toMapKey(step.key) \notin completed
  /\ \A dep \in dependencyKeys(step) :
       \/ dep \in completed
       \/ mapHas(instances, dep)
       \/ (parentLocator.present /\ mapHas(parentLocator.instances, dep))

\* produceAsync waits and no step in progress has stored its instance yet:
\* the instance map is the one the last scan saw.
WaitingSinceScan ==
  Waiting /\ \A k \in inProgress : ~mapHas(instances, k)

\* C17: when produceAsync waits on its in-progress steps, every step whose
\* dependencies were all satisfied at the scan (completed, in the instance map
\* or available in the parent Locator) has been started, so independent steps
\* whose dependencies are satisfied are in progress together.
C17_ReadyStepsStartedTogether ==
  WaitingSinceScan =>
    \A i \in 1..Len(thePlan.steps) :
      ReadyCountingParent(thePlan.steps[i])
        => toMapKey(thePlan.steps[i].key) \in inProgress

\* The Functoid invocations that threw.
Thrown == { j \in 1..Len(invocations) : invocations[j].result = UndefinedValue }

\* C18: once a construction outside a weak set element has failed, the caller
\* never obtains a Locator: produce has failed with the error thrown,
\* produceAsync fails with it as soon as it resumes, and neither returns.
C18_FailureAborts ==
  /\ failure # NoFailure => locator = NoLocator /\ pc # "done"
  /\ \A j \in Thrown :
       /\ locator = NoLocator
       /\ pc \in {"failed", "asyncScan", "asyncAwait"}
       /\ pending = <<>> => pc = "failed"
       /\ pc = "failed" => failure = FunctoidThrew(invocations[j].key)

\* produceAsync failed with the error thrown by the factory of B after the
\* instance of D had been stored; no Locator was returned.
C18_Witness ==
  /\ pc = "failed"
  /\ Thrown # {}
  /\ failure = FunctoidThrew(kB)
  /\ pending # <<>>
  /\ mapHas(instances, toMapKey(kD))
  /\ locator = NoLocator

\* The innermost level up to n whose Locator holds the key, 0 if none.
NearestHolder(n, key) ==
  IF \E i \in 1..n : locatorHas(contexts[i], key)
    THEN MaxOf({ i \in 1..n : locatorHas(contexts[i], key) })
    ELSE 0

\* C19: for an ordinary key, get and find through a Subcontext return the
\* child's value whenever the child Locator holds the key, and otherwise the
\* value of the nearest ancestor that holds it; get throws and find returns
\* undefined when no level holds it.
C19_ChildShadowsParent ==
  (lookup.op \in {"get", "find"} /\ ~isSetKey(lookup.key)) =>
    LET n == Len(contexts)
        holder == NearestHolder(n, lookup.key)
    IN /\ locatorHas(contexts[n], lookup.key) =>
            /\ ~lookup.threw
            /\ lookup.value = mapGet(contexts[n].instances, toMapKey(lookup.key))
       /\ (~locatorHas(contexts[n], lookup.key) /\ holder > 0) =>
            /\ ~lookup.threw
            /\ lookup.value = mapGet(contexts[holder].instances, toMapKey(lookup.key))
       /\ holder = 0 =>
            /\ lookup.threw = (lookup.op = "get")
            /\ lookup.value = UndefinedValue

\* get(D) through a Subcontext whose child binds D, on a root Locator that
\* holds another D, returned the child's D.
C19_Witness ==
  /\ lookup.op = "get"
  /\ lookup.key = kD
  /\ locatorHas(contexts[1], kD)
  /\ locatorHas(contexts[Len(contexts)], kD)
  /\ lookup.value = Value("childD", 0)
  /\ mapGet(contexts[1].instances, toMapKey(kD)) = Value("rootD", 0)

\* C20: getSet through a Subcontext returns the union of the sets held for
\* the set key by the child and by every ancestor Locator of the chain; it
\* throws only when no level holds the set.
C20_SetUnionOverChain ==
  lookup.op = "getSet" =>
    LET holders == { i \in 1..Len(contexts) : locatorHas(contexts[i], lookup.key) }
    IN IF holders = {} THEN lookup.threw
       ELSE /\ ~lookup.threw
            /\ lookup.value.elems =
                 UNION { mapGet(contexts[i].instances, toMapKey(lookup.key)).elems :
                           i \in holders }

\* Every lookup on the Locator of level n gives the same result in the next
\* state as in this one.
SameLookups(n) ==
  /\ \A key \in LookupKeys :
       /\ subcontextGet(contexts', n, key) = subcontextGet(contexts, n, key)
       /\ subcontextFind(contexts', n, key) = subcontextFind(contexts, n, key)
       /\ subcontextHas(contexts', n, key) = subcontextHas(contexts, n, key)
  /\ \A setKey \in {kS, kT} :
       subcontextGetSet(contexts', n, setKey) = subcontextGetSet(contexts, n, setKey)

\* C21: creating a Subcontext on a Locator, looking keys and sets up through
\* it and closing it leave every lookup on each Locator of the chain below it
\* as it was, and release none of the root Locator's resources.  The lookups
\* read the chain alone, so they are compared on the steps that change it.
C21_ParentUnaffected ==
  [][/\ contexts' # contexts => \A n \in 1..Len(contexts) : SameLookups(n)
     /\ resources' = resources
     /\ releases' = releases]_vars

\* A Subcontext nested two levels above a root Locator that holds D and the
\* set P has been closed: the root's resources are all still acquired.
C21_Witness ==
  /\ lookup.op = "close"
  /\ Len(contexts) = 3
  /\ locatorHas(contexts[1], kD) /\ locatorHas(contexts[1], kS)
  /\ locatorHas(contexts[2], kS)
  /\ resources = <<1, 2>>
  /\ releases = <<>>

\* C22: keys address the same entry exactly when they are equal: bindings
\* share a bucket of the binding index only if their keys are equal, every
\* plan step is built from bindings of its own key, and a key found in the
\* Locator returned is equal to the key of a planned step.
C22_SameEntryIffEqual ==
  /\ PlanEnded =>
       /\ \A i, j \in 1..Len(moduleDef) :
            (toMapKey(moduleDef[i].key) = toMapKey(moduleDef[j].key))
              <=> equals(moduleDef[i].key, moduleDef[j].key)
       /\ \A i \in 1..Len(thePlan.steps) :
            \A b \in Range(thePlan.steps[i].bindings) :
              equals(b.key, thePlan.steps[i].key)
  /\ pc = "done" =>
       \A key \in {kD, kD2} :
         locatorHas(locator, key) =>
           \E i \in 1..Len(thePlan.steps) : equals(thePlan.steps[i].key, key)

\* C23: a binding selected for a key stays selected when the path constraints
\* are extended by the tags of a further binding that is valid under the path
\* (non-contradictory) and carries no tag on an axis the selected binding is
\* tagged with.
TaggedAxes(tags) == { t[1] : t \in tags }

LastAdded == pathActivation.added[Len(pathActivation.added)]

C23_SelectionStableUnderExtension ==
  (pc = "select" /\ pathActivation.added # <<>> /\ selected.before.err = NoErr)
    => \A b \in Range(selected.before.bindings) :
         TaggedAxes(LastAdded) \cap TaggedAxes(b.tags) = {}
           => /\ selected.now.err = NoErr
              /\ b \in Range(selected.now.bindings)

\* C23 witness: DProd, tagged on Env alone, was selected among several
\* candidates and the path was then extended by a tag on Region.
C23_Witness ==
  /\ pc = "select"
  /\ pathActivation.added = << {<<"Region", "US">>} >>
  /\ Len(candidatesOf(moduleDef, roots[1])) >= 2
  /\ selected.before.err = NoErr
  /\ \E b \in Range(selected.before.bindings) :
       /\ b.tags = Prod
       /\ b \in Range(selected.now.bindings)

\* The resources pushed so far, named by the index of their acquire call.
AcquiredOk == { j \in 1..Len(acquired) : acquired[j].pushed > 0 }

\* The releaseAll calls that have ended.
CallsEnded ==
  { c \in 1..Len(releaseCalls) : releaseCalls[c].pc \in {"returned", "threw"} }

\* The resources held just before the p-th release was called.
HeldBefore(p) ==
  { j \in AcquiredOk : acquired[j].at <= p - 1
                       /\ \A q \in 1..(p - 1) : releases[q] # j }

\* Every resource pushed is on the stack or had its release called, never
\* both and never twice, and by one call alone; when a call ended, every
\* resource pushed until then had had its release called.
ReleasedExactlyOnce ==
  /\ \A p, q \in 1..Len(releases) : p # q => releases[p] # releases[q]
  /\ Range(releases) \cap Range(resources) = {}
  /\ Range(releases) \cup Range(resources) = AcquiredOk
  /\ \A r \in Range(releases) :
       Cardinality({ c \in 1..Len(releaseCalls) :
                       r \in Range(releaseCalls[c].released) }) = 1
  /\ \A c \in 1..Len(releaseCalls) :
       /\ Range(releaseCalls[c].released) \subseteq Range(releases)
       /\ \A p, q \in 1..Len(releaseCalls[c].released) :
            p # q => releaseCalls[c].released[p] # releaseCalls[c].released[q]
  /\ \A c \in CallsEnded :
       \A j \in AcquiredOk :
         acquired[j].pushed <= releaseCalls[c].to
           => j \in Range(SubSeq(releases, 1, releaseCalls[c].to))

\* Each release is of the resource pushed last among those still held.
ReleasedLastInFirstOut ==
  \A p \in 1..Len(releases) :
    /\ releases[p] \in HeldBefore(p)
    /\ \A j \in HeldBefore(p) : acquired[j].pushed <= acquired[releases[p]].pushed

\* The errors a call has collected are those of the failing releases it
\* called itself that have settled, in order, and the call throws only at its
\* end, exactly when there is one.
FailuresCollected ==
  \A c \in 1..Len(releaseCalls) :
    LET call == releaseCalls[c]
        settled == SubSeq(call.released, 1,
                          Len(call.released) - (IF call.pc = "awaiting" THEN 1 ELSE 0))
        Fails(r) == acquired[r].failing
    IN /\ call.errors = SelectSeq(settled, Fails)
       /\ call.pc = "threw" => call.errors # <<>>
       /\ call.pc = "returned" => call.errors = <<>>

\* C24 as stated: the releases of one releaseAll call are in exactly the
\* reverse order of acquisition, the order in which the acquire calls
\* completed.
C24_ExactReverseOrder ==
  pc = "lifecycle" =>
    \A c \in 1..Len(releaseCalls) :
      \A p, q \in 1..Len(releaseCalls[c].released) :
        p < q => acquired[releaseCalls[c].released[p]].pushed
                   > acquired[releaseCalls[c].released[q]].pushed

\* C24 amended: the releaseAll calls, overlapping or not, call the release of
\* every resource on the manager's stack, the resources whose acquire call
\* has completed, exactly once, each time that of the resource pushed last
\* among those still held, so that the resources pushed before a call began
\* are released by it in exactly the reverse order in which their acquire
\* calls completed; a failing release does not stop the loop, and a call
\* throws the failures of the releases it called itself, together, only once
\* it finds the stack empty.
C24_ReleaseAllLifo ==
  pc = "lifecycle" =>
    /\ ReleasedExactlyOnce
    /\ ReleasedLastInFirstOut
    /\ \A c \in 1..Len(releaseCalls) :
         \A p, q \in 1..Len(releaseCalls[c].released) :
           (/\ p < q
            /\ acquired[releaseCalls[c].released[p]].at <= releaseCalls[c].from
            /\ acquired[releaseCalls[c].released[q]].at <= releaseCalls[c].from)
             => acquired[releaseCalls[c].released[p]].pushed
                  > acquired[releaseCalls[c].released[q]].pushed
    /\ FailuresCollected

\* C24 witness: three resources were acquired one after the other, the
\* release of the second fails, and the one releaseAll call has thrown after
\* releasing 3, 2, 1.
C24_Witness ==
  /\ pc = "lifecycle"
  /\ Len(releaseCalls) = 1
  /\ releaseCalls[1].pc = "threw"
  /\ Len(acquired) = 3
  /\ \A j \in 1..3 : acquired[j].pushed = j
  /\ releases = <<3, 2, 1>>
  /\ releaseCalls[1].released = <<3, 2, 1>>
  /\ acquired[2].failing /\ ~acquired[1].failing /\ ~acquired[3].failing
  /\ releaseCalls[1].errors = <<2>>
  /\ resources = <<>>

\* C25: after each scan of produceAsync every step whose dependencies are
\* completed, in the instance map or available in the parent Locator has been
\* started; in particular the no-progress error is not raised while such a
\* step exists.
C25_ParentServedStepStarted ==
  (Waiting \/ (pc = "failed" /\ failure = InvalidPlan)) =>
    \A i \in 1..Len(thePlan.steps) :
      ReadyCountingParent(thePlan.steps[i])
        => toMapKey(thePlan.steps[i].key) \in inProgress

\* The errors the catch clause of a set element skipped.
Swallowed == { i \in 1..Len(thePlan.caught) : thePlan.caught[i].swallowed }

\* The error caught at catch clause i reaches the catch clause of an enclosing
\* element later, and is swallowed there.
SwallowedFurtherUp(i) ==
  \E j \in (i + 1)..Len(thePlan.caught) :
    /\ thePlan.caught[j].err = thePlan.caught[i].err
    /\ thePlan.caught[j].swallowed

\* C26 as stated: the Planner swallows an error only at a weak set element and
\* only when it is a MissingDependency or an AxisConflict; a
\* CircularDependency or a ConflictingBindings that reaches the catch clause
\* of a weak element aborts planning, and so does every error that reaches
\* the catch clause of a non-weak element.
C26_NonWeakErrorAlwaysAborts ==
  PlanEnded =>
    /\ \A i \in Swallowed :
         /\ thePlan.caught[i].weak
         /\ thePlan.caught[i].err.kind \in {"MissingDependency", "AxisConflict"}
    /\ \A i \in 1..Len(thePlan.caught) :
         (\/ thePlan.caught[i].err.kind \in {"CircularDependency", "ConflictingBindings"}
          \/ ~thePlan.caught[i].weak)
           => /\ ~thePlan.caught[i].swallowed
              /\ thePlan.err = thePlan.caught[i].err

\* C26 amended: an error is swallowed exactly when it reaches the catch clause
\* of a weak set element and is a MissingDependency or an AxisConflict; a
\* CircularDependency or a ConflictingBindings that reaches the catch clause
\* of any element is rethrown and aborts planning; an error that reaches the
\* catch clause of a non-weak element is rethrown, and aborts planning unless
\* an enclosing weak element swallows it; planning returns a Plan only if
\* each error thrown was swallowed, and otherwise fails with the one error
\* that was not.
C26_OnlyWeakMissingSwallowed ==
  PlanEnded =>
    /\ \A i \in 1..Len(thePlan.caught) :
         /\ thePlan.caught[i].swallowed
              <=> /\ thePlan.caught[i].weak
                  /\ thePlan.caught[i].err.kind \in {"MissingDependency", "AxisConflict"}
         /\ thePlan.caught[i].err.kind \in {"CircularDependency", "ConflictingBindings"}
              => thePlan.err = thePlan.caught[i].err
         /\ ~thePlan.caught[i].weak
              => \/ thePlan.err = thePlan.caught[i].err
                 \/ /\ thePlan.caught[i].err.kind \in {"MissingDependency", "AxisConflict"}
                    /\ SwallowedFurtherUp(i)
    /\ thePlan.err = NoErr => Len(thePlan.raised) = Cardinality(Swallowed)
    /\ thePlan.err # NoErr =>
         /\ Len(thePlan.raised) = Cardinality(Swallowed) + 1
         /\ thePlan.raised[Len(thePlan.raised)] = thePlan.err

\* C26 witness: planning of Set<Q> failed with the ConflictingBindings of X,
\* which has two untagged bindings; the error reached the catch clause of the
\* weak element PluginX, which did not swallow it.
C26_Witness ==
  /\ pc = "planFailed"
  /\ roots = <<kT>>
  /\ thePlan.err.kind = "ConflictingBindings"
  /\ thePlan.err.key = kX
  /\ thePlan.caught = <<[err |-> thePlan.err, weak |-> TRUE, swallowed |-> FALSE]>>

\* C27: the dependencies recorded in the plan step of a set key are exactly
\* the dependencies of the element bindings the step holds.
C27_SetStepDependenciesOfSurvivors ==
  (PlanEnded /\ thePlan.err = NoErr) =>
    \A i \in 1..Len(thePlan.steps) :
      isSetKey(thePlan.steps[i].key) =>
        Range(thePlan.steps[i].dependencies)
          = UNION { Range(getDependencies(b)) : b \in Range(thePlan.steps[i].bindings) }

\* C28: production of a Plan the Planner returned fails only because a
\* Functoid threw, never on an unresolved dependency, and the Locator it
\* returns, or the parent Locator, holds every root key.
C28_ProductionServesRoots ==
  /\ pc = "failed" => failure.kind = "FunctoidThrew"
  /\ pc = "done" =>
       \A i \in 1..Len(roots) :
         \/ locatorHas(locator, roots[i])
         \/ (parentLocator.present /\ locatorHas(parentLocator, roots[i]))

\* C29: visiting holds the keys of the traversal path and no others, so a
\* CircularDependencyError, whose path is the traversal path followed by the
\* key being entered, is thrown only for a key that is on the traversal path:
\* the dependencies along the path form a cycle through that key.
C29_CircularOnlyOnRealCycle ==
  (pc = "planFailed" /\ thePlan.err.kind = "CircularDependency") =>
    \E i \in 1..(Len(thePlan.err.path) - 1) :
      thePlan.err.path[i] = thePlan.err.path[Len(thePlan.err.path)]

\* Every Functoid of the Plan returns: none of them throws.
FunctoidsReturn ==
  \A i \in 1..Len(thePlan.steps) :
    \A b \in Range(thePlan.steps[i].bindings) : b.impl \notin Throwing

\* C30: once produceAsync has been entered with a Plan whose Functoids all
\* return, it eventually returns a Locator with every step completed.
C30_AsyncEventuallyReturns ==
  (pc = "asyncScan" /\ FunctoidsReturn)
    ~> (pc = "done" /\ Cardinality(completed) = Len(thePlan.steps))

====
